---------------------------- MODULE Spec2Model ----------------------------
(***************************************************************************)
(* Authentication and waitlist backend: the Express middleware chain       *)
(* (rate limiters, API key, origin, bearer authentication), the register   *)
(* and login handlers and the storage behind them.                         *)
(*                                                                         *)
(* Conventions.  A JavaScript string is a sequence of one-character        *)
(* strings.  An optional value (undefined / null / absent header) is a set *)
(* with at most one element: {} is undefined, {v} is the value v.  Time is *)
(* Date.now() in milliseconds.  One action is one run-to-completion turn   *)
(* of the Node.js event loop: synchronous middleware and the synchronous   *)
(* prefix of a handler form one action, every await on the store or on     *)
(* bcrypt ends it.                                                         *)
(***************************************************************************)
EXTENDS Integers, Sequences, FiniteSets, TLC

\* ------------------------------------------------------------------------
\* Bounds of the model
\* ------------------------------------------------------------------------
\* request slots handled concurrently by the account handlers
MaxReqs == 3
\* requests one client sends to the public endpoints per quarter of an hour
MaxPublicReqs == 11
\* clock steps in one behaviour
MaxTicks == 2
\* requests the client of the gate checks sends
MaxGateReqs == 2

\* ------------------------------------------------------------------------
\* Optional values
\* ------------------------------------------------------------------------
None == {}
Some(v) == {v}
IsSome(x) == x # {}
Val(x) == CHOOSE v \in x : TRUE
\* a ?? b
Coalesce(a, b) == IF IsSome(a) THEN a ELSE b

\* ------------------------------------------------------------------------
\* Strings
\* ------------------------------------------------------------------------
Str0 == << >>
IsSpace(c) == c = " "

\* String.prototype.toLowerCase on the characters the model uses
LowerChar(c) ==
    CASE c = "A" -> "a"
      [] c = "B" -> "b"
      [] c = "C" -> "c"
      [] c = "D" -> "d"
      [] OTHER   -> c

toLowerCase(s) == [i \in 1..Len(s) |-> LowerChar(s[i])]

RECURSIVE trimStart(_)
trimStart(s) ==
    IF s # Str0 /\ IsSpace(Head(s)) THEN trimStart(Tail(s)) ELSE s

RECURSIVE trimEnd(_)
trimEnd(s) ==
    IF s # Str0 /\ IsSpace(s[Len(s)]) THEN trimEnd(SubSeq(s, 1, Len(s) - 1)) ELSE s

\* JSON values of a request body field that the handlers do not type-check
\* themselves: a string, or a number
JsonString(s) == [type |-> "string", chars |-> s]
JsonNumber(n) == [type |-> "number", num |-> n]
\* !v is false
Truthy(v) == IF v.type = "string" THEN v.chars # Str0 ELSE v.num # 0

\* String.prototype.trim
trim(s) == trimEnd(trimStart(s))

\* (rawUser ?? email ?? "").trim().toLowerCase()
normalizeUsername(rawUser, email) ==
    toLowerCase(trim(Val(Coalesce(rawUser, Coalesce(email, Some(Str0))))))

\* /^[^\s@]+@[^\s@]+\.[^\s@]+$/ : no white space, exactly one "@", not first,
\* and a "." after it with a character on each side
emailRegex(s) ==
    /\ \A i \in 1..Len(s) : ~IsSpace(s[i])
    /\ Cardinality({i \in 1..Len(s) : s[i] = "@"}) = 1
    /\ \E i \in 2..Len(s) :
          /\ s[i] = "@"
          /\ \E j \in (i + 2)..(Len(s) - 1) : s[j] = "."

MinPasswordLength == 6

\* the schema with a minimum of 8 characters
insertUserSchema_min8(username, password) ==
    /\ Len(username) >= 1
    /\ emailRegex(username)
    /\ IsSome(password)
    /\ Val(password).type = "string"
    /\ Len(Val(password).chars) >= 8

\* insertUserSchema.safeParse({ username, password }).success
insertUserSchema(username, password) ==
    /\ Len(username) >= 1
    /\ emailRegex(username)
    /\ IsSome(password)
    /\ Val(password).type = "string"
    /\ Len(Val(password).chars) >= MinPasswordLength

\* insertWaitlistSchema.safeParse({ name, email, interests }).success
insertWaitlistSchema(name, email) ==
    /\ IsSome(name)
    /\ Len(Val(name)) >= 1
    /\ IsSome(email)
    /\ Len(Val(email)) >= 1
    /\ emailRegex(Val(email))

\* ------------------------------------------------------------------------
\* Responses
\* ------------------------------------------------------------------------
\* res.status(s).json(b)
Response(s, b) == [status |-> s, body |-> b]
\* next(err) with an error carrying no status: the application's error
\* handler answers 500
InternalError == Response(500, [message |-> "Internal Server Error"])

\* ------------------------------------------------------------------------
\* passwordUtils (bcryptjs): a salted one-way record of the password
\* ------------------------------------------------------------------------
Salts == {"salt1", "salt2"}

\* bcrypt keys its cipher with the first 72 bytes of the password: what
\* follows them does not reach the hash
BcryptMaxBytes == 72
bcryptKey(password) ==
    IF Len(password) > BcryptMaxBytes THEN SubSeq(password, 1, BcryptMaxBytes)
    ELSE password

passwordUtils_hash(password, salt) ==
    [kind |-> "bcrypt", salt |-> salt, key |-> bcryptKey(password)]

\* bcrypt.compare(password, hash) of bcryptjs: rejects ("Illegal arguments")
\* unless both arguments are strings; false for a string that is no bcrypt hash
passwordUtils_verify(password, hash) ==
    IF password.type # "string" \/ (hash.kind = "plain" /\ hash.text.type # "string")
    THEN [threw |-> TRUE, ok |-> FALSE]
    ELSE [threw |-> FALSE,
          ok |-> hash.kind = "bcrypt" /\ hash.key = bcryptKey(password.chars)]

\* ------------------------------------------------------------------------
\* jwtUtils (jsonwebtoken, HS256 with JWT_SECRET)
\* ------------------------------------------------------------------------
\* JWT_EXPIRES_IN = '24h', in seconds
JWT_EXPIRES_IN == 24 * 60 * 60
RefreshExpiresIn == 7 * 24 * 60 * 60

\* Math.floor(Date.now() / 1000)
ClockTimestamp(t) == t \div 1000

\* an access token signed with the lifetime of a refresh token
generateToken_sevenDays(user, t) ==
    [payload |-> [id       |-> user.id,
                  username |-> Some(user.username),
                  role     |-> Some(IF user.role # "" THEN user.role ELSE "user"),
                  type     |-> None],
     iat |-> ClockTimestamp(t),
     exp |-> ClockTimestamp(t) + RefreshExpiresIn,
     sig |-> "valid"]

jwtUtils_generateToken(user, t) ==
    [payload |-> [id       |-> user.id,
                  username |-> Some(user.username),
                  role     |-> Some(IF user.role # "" THEN user.role ELSE "user"),
                  type     |-> None],
     iat |-> ClockTimestamp(t),
     exp |-> ClockTimestamp(t) + JWT_EXPIRES_IN,
     sig |-> "valid"]

jwtUtils_generateRefreshToken(userId, t) ==
    [payload |-> [id |-> userId, username |-> None, role |-> None,
                  type |-> Some("refresh")],
     iat |-> ClockTimestamp(t),
     exp |-> ClockTimestamp(t) + RefreshExpiresIn,
     sig |-> "valid"]

\* a verifier that checks the signature only
verifyToken_ignoringExpiry(token, t) ==
    IF token.sig = "valid" THEN Some(token.payload) ELSE None

\* jwt.verify: the decoded payload, or None where the code throws
\* 'Invalid or expired token' (bad signature, malformed, or now >= exp)
jwtUtils_verifyToken(token, t) ==
    IF token.sig = "valid" /\ ClockTimestamp(t) < token.exp
    THEN Some(token.payload)
    ELSE None

\* ------------------------------------------------------------------------
\* Configuration (defaults of the environment variables)
\* ------------------------------------------------------------------------
API_KEY == "your-api-key-change-this-in-production"
Origin(protocol, host) == <<protocol, "//", host>>
ALLOWED_ORIGINS ==
    { Origin("http:", "localhost:3000"),
      Origin("https:", "webfrontend-xxjt.onrender.com") }

\* new URL(referer): protocol and host, or invalid where the constructor throws
URL(referer) ==
    CASE referer = "http://localhost:3000/signup"
           -> [valid |-> TRUE, protocol |-> "http:", host |-> "localhost:3000"]
      [] referer = "https://evil.example/page"
           -> [valid |-> TRUE, protocol |-> "https:", host |-> "evil.example"]
      [] OTHER
           -> [valid |-> FALSE, protocol |-> "", host |-> ""]

\* ------------------------------------------------------------------------
\* Rate limiters: Map<string, { count, resetTime }>
\* ------------------------------------------------------------------------
MapHas(m, k) == k \in DOMAIN m
MapSet(m, k, v) == [x \in (DOMAIN m) \cup {k} |-> IF x = k THEN v ELSE m[x]]
EmptyMap == [x \in {} |-> 0]

\* Math.ceil(ms / 1000) for ms >= 0
CeilSeconds(ms) == (ms + 999) \div 1000

\* The middleware returned by rateLimitByUser(maxRequests, windowMs), run on a
\* request whose context holds `user` (req.user) and `ip` (req.ip) at time t
\* against the map `counts`.  Result: whether next() was called, the map
\* afterwards, the response sent (if any) and whether the window was (re)set.
rateLimitByUser(maxRequests, windowMs, user, ip, t, counts) ==
    LET userId == IF IsSome(user) THEN Val(user).id ELSE ip
    IN  IF ~MapHas(counts, userId) \/ t > counts[userId].resetTime
        THEN [next |-> TRUE, key |-> userId, reset |-> TRUE, res |-> None,
              counts |-> MapSet(counts, userId,
                                [count |-> 1, resetTime |-> t + windowMs])]
        ELSE IF counts[userId].count >= maxRequests
        THEN [next |-> FALSE, key |-> userId, reset |-> FALSE, counts |-> counts,
              res |-> Some(Response(429,
                        [error   |-> "Rate limit exceeded",
                         message |-> <<"Too many requests. Try again in ",
                                       CeilSeconds(counts[userId].resetTime - t),
                                       " seconds.">>]))]
        ELSE [next |-> TRUE, key |-> userId, reset |-> FALSE, res |-> None,
              counts |-> MapSet(counts, userId,
                                [counts[userId] EXCEPT !.count = @ + 1])]

\* a limiter whose ceiling test is count > maxRequests
strictRateLimitByIP_offByOne(maxRequests, windowMs, ip, t, counts) ==
    IF ~MapHas(counts, ip) \/ t > counts[ip].resetTime
    THEN [next |-> TRUE, key |-> ip, reset |-> TRUE, res |-> None,
          counts |-> MapSet(counts, ip, [count |-> 1, resetTime |-> t + windowMs])]
    ELSE IF counts[ip].count > maxRequests
    THEN [next |-> FALSE, key |-> ip, reset |-> FALSE, counts |-> counts,
          res |-> Some(Response(429,
                    [error      |-> "Rate limit exceeded",
                     message    |-> <<"Too many requests from this IP. Try again in ",
                                      CeilSeconds(counts[ip].resetTime - t), " seconds.">>,
                     retryAfter |-> CeilSeconds(counts[ip].resetTime - t)]))]
    ELSE [next |-> TRUE, key |-> ip, reset |-> FALSE, res |-> None,
          counts |-> MapSet(counts, ip, [counts[ip] EXCEPT !.count = @ + 1])]

\* a limiter that never finds the client's entry and opens a window for
\* every request
strictRateLimitByIP_alwaysNewWindow(maxRequests, windowMs, ip, t, counts) ==
    [next |-> TRUE, key |-> ip, reset |-> TRUE, res |-> None,
     counts |-> MapSet(counts, ip, [count |-> 1, resetTime |-> t + windowMs])]

\* The middleware returned by strictRateLimitByIP(maxRequests, windowMs).
strictRateLimitByIP(maxRequests, windowMs, ip, t, counts) ==
    LET clientIP == ip
    IN  IF ~MapHas(counts, clientIP) \/ t > counts[clientIP].resetTime
        THEN [next |-> TRUE, key |-> clientIP, reset |-> TRUE, res |-> None,
              counts |-> MapSet(counts, clientIP,
                                [count |-> 1, resetTime |-> t + windowMs])]
        ELSE IF counts[clientIP].count >= maxRequests
        THEN LET timeLeft == CeilSeconds(counts[clientIP].resetTime - t)
             IN  [next |-> FALSE, key |-> clientIP, reset |-> FALSE,
                  counts |-> counts,
                  res |-> Some(Response(429,
                            [error      |-> "Rate limit exceeded",
                             message    |-> <<"Too many requests from this IP. Try again in ",
                                              timeLeft, " seconds.">>,
                             retryAfter |-> timeLeft]))]
        ELSE [next |-> TRUE, key |-> clientIP, reset |-> FALSE, res |-> None,
              counts |-> MapSet(counts, clientIP,
                                [counts[clientIP] EXCEPT !.count = @ + 1])]

\* ------------------------------------------------------------------------
\* Gate middleware
\* ------------------------------------------------------------------------
\* a key check that sends every request without the configured key away
\* with 403
requireApiKey_always403(req) ==
    IF IsSome(req.apiKey) /\ Val(req.apiKey) = API_KEY
    THEN None
    ELSE Some(Response(403,
            [error   |-> "Invalid API key",
             message |-> "The provided API key is not valid"]))

\* requireApiKey: None where next() is called, else the response; the header
\* value "" is falsy like an absent header
requireApiKey(req) ==
    IF ~IsSome(req.apiKey) \/ Val(req.apiKey) = ""
    THEN Some(Response(401,
            [error   |-> "API key required",
             message |-> "Please provide a valid API key in the x-api-key header"]))
    ELSE IF Val(req.apiKey) # API_KEY
    THEN Some(Response(403,
            [error   |-> "Invalid API key",
             message |-> "The provided API key is not valid"]))
    ELSE None

\* validateOrigin: None where next() is called, else the response; a Referer
\* that new URL() cannot parse throws inside the middleware
validateOrigin(req, env) ==
    IF ~IsSome(req.origin) /\ ~IsSome(req.referer) /\ env # "production"
    THEN None
    ELSE IF IsSome(req.origin) /\ Val(req.origin) \in ALLOWED_ORIGINS
    THEN None
    ELSE IF IsSome(req.referer) /\ ~URL(Val(req.referer)).valid
    THEN Some(InternalError)
    ELSE IF IsSome(req.referer)
            /\ Origin(URL(Val(req.referer)).protocol, URL(Val(req.referer)).host)
                  \in ALLOWED_ORIGINS
    THEN None
    ELSE Some(Response(403,
            [error   |-> "Origin not allowed",
             message |-> "Requests from this origin are not permitted"]))

\* authenticate: the identity attached to the request (req.user) where next()
\* is called, else the response
authenticate(req, t) ==
    LET authHeader == req.authorization
        token == IF IsSome(authHeader) /\ Val(authHeader).scheme = "Bearer"
                 THEN Val(authHeader).credentials
                 ELSE None
    IN  IF ~IsSome(token)
        THEN [next |-> FALSE, user |-> None,
              res |-> Some(Response(401,
                        [error   |-> "Authentication required",
                         message |-> "No token provided"]))]
        ELSE LET decoded == jwtUtils_verifyToken(Val(token), t)
             IN  IF IsSome(decoded)
                 THEN [next |-> TRUE, res |-> None,
                       user |-> Some([id       |-> Val(decoded).id,
                                      username |-> Val(decoded).username,
                                      role     |-> Val(decoded).role])]
                 ELSE [next |-> FALSE, user |-> None,
                       res |-> Some(Response(401,
                                 [error   |-> "Authentication failed",
                                  message |-> "Invalid or expired token"]))]

\* an authorization that only asks for an attached identity
authorize_anyRole(roles, user) ==
    IF ~IsSome(user)
    THEN Some(Response(401,
            [error   |-> "Authentication required",
             message |-> "Must be logged in to access this resource"]))
    ELSE None

\* authorize(roles): None where next() is called, else the response; `user`
\* is req.user, `roles` the array the route passes
authorize(roles, user) ==
    IF ~IsSome(user)
    THEN Some(Response(401,
            [error   |-> "Authentication required",
             message |-> "Must be logged in to access this resource"]))
    ELSE LET userRole == IF IsSome(Val(user).role) /\ Val(Val(user).role) # ""
                         THEN Val(Val(user).role)
                         ELSE "user"
         IN  IF ~(\E i \in 1..Len(roles) : roles[i] = userRole)
             THEN Some(Response(403,
                     [error   |-> "Authorization failed",
                      message |-> <<"Access denied. Required role: ", roles>>]))
             ELSE None

\* ------------------------------------------------------------------------
\* State
\* ------------------------------------------------------------------------
VARIABLES
    now,                \* Date.now(), ms
    nodeEnv,            \* process.env.NODE_ENV
    userRequestCounts,  \* the map of rateLimitByUser
    ipRequestCounts,    \* the map shared by every strictRateLimitByIP middleware
    storageKind,        \* the implementation behind storage: "mem" or "db"
    users,              \* the users of the store, in insertion order
    waitlistEntries,    \* the waitlist of the store, by email
    reqs,               \* request slots: the requests in flight and their answers
    allowed,            \* per limiter and key: requests let through since the key's window was set
    made                \* per limiter and key: requests that reached it since the key's window was set

vars == <<now, nodeEnv, userRequestCounts, ipRequestCounts, storageKind, users,
          waitlistEntries, reqs, allowed, made>>

Slots == 1..MaxReqs
IPs == {"ip1", "ip2"}
Limiters == {"general", "register", "waitlist"}

\* routes.ts:28, and the ceilings of the two public routes
GeneralMax == 100
GeneralWindowMs == 15 * 60 * 1000
RegisterMax == 5
WaitlistMax == 10
StrictWindowMs == 60 * 60 * 1000
StrictMax(route) == IF route = "register" THEN RegisterMax ELSE WaitlistMax

\* clock steps: a quarter of an hour, an hour
QuarterMs == 15 * 60 * 1000
HourMs == 60 * 60 * 1000

IdleSlot == [pc |-> "idle"]

Init ==
    /\ now = 0
    /\ nodeEnv \in {"development", "production"}
    /\ userRequestCounts = EmptyMap
    /\ ipRequestCounts = EmptyMap
    /\ storageKind \in {"mem", "db"}
    /\ users = << >>
    /\ waitlistEntries = EmptyMap
    /\ reqs = [r \in Slots |-> IdleSlot]
    /\ allowed = [l \in Limiters |-> EmptyMap]
    /\ made = [l \in Limiters |-> EmptyMap]

\* ------------------------------------------------------------------------
\* Bookkeeping of what the limiters let through (not program state)
\* ------------------------------------------------------------------------
Count(m, k) == IF MapHas(m, k) THEN m[k] ELSE 0

\* after limiter `l` handled a request with result `out`; `others` are the
\* limiters that share its map
Min(a, b) == IF a < b THEN a ELSE b
Tally(t, l, others, out, passed, cap) ==
    [x \in Limiters |->
        IF x = l
        THEN MapSet(t[x], out.key,
                    IF out.reset THEN 1
                    ELSE Min(Count(t[x], out.key) + (IF passed THEN 1 ELSE 0), cap))
        ELSE IF x \in others /\ out.reset
        THEN MapSet(t[x], out.key, 0)
        ELSE t[x]]

\* ------------------------------------------------------------------------
\* The middleware chains
\* ------------------------------------------------------------------------
\* app.use('/api', logAuthenticatedRequest); app.use('/api', rateLimitByUser(100, 15 min)):
\* runs first on every /api request, on the context as Express created it
\* (req.user is not set by any earlier middleware)
ApiPrefix(req, ctxUser) ==
    rateLimitByUser(GeneralMax, GeneralWindowMs, ctxUser, req.ip, now, userRequestCounts)

\* app.post(route, strictRateLimitByIP(max, 1 h), requireApiKey, validateOrigin, handler)
\* stage: the stage that answered, or "handler" when the handler is reached
PublicChain(route, req) ==
    LET g == ApiPrefix(req, None)
        s == strictRateLimitByIP(StrictMax(route), StrictWindowMs, req.ip, now,
                                 ipRequestCounts)
        k == requireApiKey(req)
        o == validateOrigin(req, nodeEnv)
    IN  IF ~g.next
        THEN [stage |-> "general", res |-> g.res, general |-> Some(g), strict |-> None]
        ELSE IF ~s.next
        THEN [stage |-> "strict", res |-> s.res, general |-> Some(g), strict |-> Some(s)]
        ELSE IF IsSome(k)
        THEN [stage |-> "apikey", res |-> k, general |-> Some(g), strict |-> Some(s)]
        ELSE IF IsSome(o)
        THEN [stage |-> "origin", res |-> o, general |-> Some(g), strict |-> Some(s)]
        ELSE [stage |-> "handler", res |-> None, general |-> Some(g), strict |-> Some(s)]

\* the effect of a chain on the limiter maps and on the bookkeeping
ApplyLimiters(route, chain) ==
    LET g == Val(chain.general)
        other == IF route = "register" THEN "waitlist" ELSE "register"
    IN  /\ userRequestCounts' = g.counts
        /\ IF IsSome(chain.strict)
           THEN LET s == Val(chain.strict)
                IN  /\ ipRequestCounts' = s.counts
                    /\ allowed' = Tally(Tally(allowed, "general", {}, g, g.next, GeneralMax + 1),
                                        route, {other}, s, s.next, StrictMax(route) + 1)
                    /\ made' = Tally(made, route, {other}, s, TRUE, StrictMax(route) + 1)
           ELSE /\ ipRequestCounts' = ipRequestCounts
                /\ allowed' = Tally(allowed, "general", {}, g, g.next, GeneralMax + 1)
                /\ made' = made

SlotFree(r) == reqs[r].pc \in {"idle", "done"}

\* what a limiter decided, as kept with the request
Verdict(out) == [key |-> out.key, next |-> out.next, reset |-> out.reset]
Verdicts(chain) ==
    [general |-> Verdict(Val(chain.general)),
     strict  |-> IF IsSome(chain.strict) THEN Some(Verdict(Val(chain.strict))) ELSE None]

Done(req, route, chain, stage, res) ==
    [pc |-> "done", route |-> route, req |-> req, stage |-> stage, res |-> res,
     limits |-> Verdicts(chain)]

\* ------------------------------------------------------------------------
\* Actions
\* ------------------------------------------------------------------------
AdvanceTime(d) ==
    /\ now' = now + d
    /\ UNCHANGED <<nodeEnv, userRequestCounts, ipRequestCounts, storageKind, waitlistEntries, users,
                   reqs, allowed, made>>

\* POST /api/register up to its first await (storage.getUserByUsername)
RegisterReceive(r, req) ==
    LET chain == PublicChain("register", req)
        username == normalizeUsername(req.body.username, req.body.email)
        valid == insertUserSchema(username, req.body.password)
    IN  /\ SlotFree(r)
        /\ ApplyLimiters("register", chain)
        /\ reqs' = [reqs EXCEPT ![r] =
             IF chain.stage # "handler"
             THEN Done(req, "register", chain, chain.stage, Val(chain.res))
             ELSE IF ~valid
             THEN Done(req, "register", chain, "validation",
                       Response(400, [message |-> "Invalid input"]))
             ELSE [pc |-> "lookup", route |-> "register", req |-> req,
                   stage |-> "handler", limits |-> Verdicts(chain),
                   username |-> username]]
        /\ UNCHANGED <<now, nodeEnv, storageKind, waitlistEntries, users>>

\* POST /api/waitlist up to its first await (storage.getWaitlistEntryByEmail)
WaitlistReceive(r, req) ==
    LET chain == PublicChain("waitlist", req)
        valid == insertWaitlistSchema(req.body.name, req.body.email)
    IN  /\ SlotFree(r)
        /\ ApplyLimiters("waitlist", chain)
        /\ reqs' = [reqs EXCEPT ![r] =
             IF chain.stage # "handler"
             THEN Done(req, "waitlist", chain, chain.stage, Val(chain.res))
             ELSE IF ~valid
             THEN Done(req, "waitlist", chain, "validation",
                       Response(400, [message |-> "Invalid input"]))
             ELSE [pc |-> "wl_lookup", route |-> "waitlist", req |-> req,
                   stage |-> "handler", limits |-> Verdicts(chain)]]
        /\ UNCHANGED <<now, nodeEnv, storageKind, waitlistEntries, users>>

\* GET /api/debug: behind the /api prefix only, answers 200 from the request
DebugRequest(r, req) ==
    LET g == ApiPrefix(req, None)
        chain == [general |-> Some(g), strict |-> None]
    IN  /\ SlotFree(r)
        /\ ApplyLimiters("debug", chain)
        /\ reqs' = [reqs EXCEPT ![r] =
             IF ~g.next
             THEN Done(req, "debug", chain, "general", Val(g.res))
             ELSE Done(req, "debug", chain, "handler",
                       Response(200, [status |-> "ok"]))]
        /\ UNCHANGED <<now, nodeEnv, storageKind, waitlistEntries, users>>

\* ------------------------------------------------------------------------
\* Storage (IStorage behind StorageProxy)
\* ------------------------------------------------------------------------
\* randomUUID(): a fresh id
randomUUID(n) ==
    CASE n = 1 -> "uuid-1"
      [] n = 2 -> "uuid-2"
      [] n = 3 -> "uuid-3"
      [] n = 4 -> "uuid-4"
      [] n = 5 -> "uuid-5"
      [] OTHER -> "uuid-6"

\* getUserByUsername: MemStorage finds the first user in insertion order whose
\* username is strictly equal; DbStorage selects where username = $1 limit 1
getUserByUsername(store, username) ==
    LET hits == {i \in 1..Len(store) : store[i].username = username}
    IN  IF hits = {} THEN None
        ELSE Some(store[CHOOSE i \in hits : \A j \in hits : i <= j])

\* createUser: MemStorage sets users[id] for a fresh id, whatever the username;
\* DbStorage inserts a row, and the unique constraint on users.username makes
\* the insert throw when the username is taken
createUser(kind, store, insertUser) ==
    LET newUser == [id |-> randomUUID(Len(store) + 1),
                    username |-> insertUser.username,
                    password |-> insertUser.password,
                    role |-> IF insertUser.role # "" THEN insertUser.role ELSE "user",
                    emailVerified |-> None,
                    emailVerificationToken |-> None,
                    emailVerificationExpires |-> None]
    IN  IF kind = "db" /\ \E i \in 1..Len(store) : store[i].username = insertUser.username
        THEN [threw |-> TRUE, store |-> store, created |-> None]
        ELSE [threw |-> FALSE, store |-> Append(store, newUser), created |-> Some(newUser)]

\* an error of the store that reaches next(err): the error handler answers 500
\* with the error's message
StoreError == Response(500, [message |-> "duplicate key value violates unique constraint"])

\* ------------------------------------------------------------------------
\* POST /api/register after its first await
\* ------------------------------------------------------------------------
\* const exists = await storage.getUserByUsername(username)
RegisterLookup(r) ==
    /\ reqs[r].pc = "lookup"
    /\ reqs' = [reqs EXCEPT ![r] =
         IF IsSome(getUserByUsername(users, reqs[r].username))
         THEN [reqs[r] EXCEPT !.pc = "done"]
                 @@ [res |-> Response(409, [message |-> "User already exists"])]
         ELSE [reqs[r] EXCEPT !.pc = "hash"]]
    /\ UNCHANGED <<now, nodeEnv, userRequestCounts, ipRequestCounts, storageKind, waitlistEntries,
                   users, allowed, made>>

\* const hashedPassword = await passwordUtils.hash(password)
RegisterHash(r, salt) ==
    /\ reqs[r].pc = "hash"
    /\ reqs' = [reqs EXCEPT ![r] =
         [reqs[r] EXCEPT !.pc = "insert"]
            @@ [hashedPassword |-> passwordUtils_hash(Val(reqs[r].req.body.password).chars, salt)]]
    /\ UNCHANGED <<now, nodeEnv, userRequestCounts, ipRequestCounts, storageKind, waitlistEntries,
                   users, allowed, made>>

\* what the handler answers once storage.createUser has settled
registerAnswer(out, t) ==
    IF out.threw
    THEN StoreError
    ELSE Response(201,
            [user    |-> [id       |-> Val(out.created).id,
                          username |-> Val(out.created).username,
                          role     |-> Val(out.created).role],
             token   |-> jwtUtils_generateToken(Val(out.created), t),
             message |-> "Registration successful"])

\* const created = await storage.createUser({ username, password, role: 'user' })
\* and the rest of the handler
RegisterInsert(r) ==
    LET out == createUser(storageKind, users,
                          [username |-> reqs[r].username,
                           password |-> reqs[r].hashedPassword,
                           role     |-> "user"])
    IN  /\ reqs[r].pc = "insert"
        /\ users' = out.store
        /\ reqs' = [reqs EXCEPT ![r] =
             [reqs[r] EXCEPT !.pc = "done"]
                @@ [res |-> registerAnswer(out, now), threw |-> out.threw]]
        /\ UNCHANGED <<now, nodeEnv, userRequestCounts, ipRequestCounts, storageKind, waitlistEntries,
                       allowed, made>>

\* ------------------------------------------------------------------------
\* POST /api/users (API-only server): storage.createUser on the body as sent
\* ------------------------------------------------------------------------
CreateUserRequest(r, req) ==
    LET g == ApiPrefix(req, None)
        chain == [general |-> Some(g), strict |-> None]
        missing == \/ ~IsSome(req.body.username) \/ Val(req.body.username) = Str0
                   \/ ~IsSome(req.body.password) \/ ~Truthy(Val(req.body.password))
        out == createUser(storageKind, users,
                          [username |-> Val(req.body.username),
                           password |-> [kind |-> "plain", text |-> Val(req.body.password)],
                           role     |-> "user"])
    IN  /\ SlotFree(r)
        /\ ApplyLimiters("users", chain)
        /\ IF g.next /\ ~missing
           THEN /\ users' = out.store
                /\ reqs' = [reqs EXCEPT ![r] =
                     Done(req, "users", chain, "handler",
                          IF out.threw
                          THEN Response(500, [error |-> "Failed to create user"])
                          ELSE Response(201, Val(out.created)))]
           ELSE /\ users' = users
                /\ reqs' = [reqs EXCEPT ![r] =
                     IF ~g.next
                     THEN Done(req, "users", chain, "general", Val(g.res))
                     ELSE Done(req, "users", chain, "validation",
                               Response(400, [error |-> "Username and password required"]))]
        /\ UNCHANGED <<now, nodeEnv, storageKind, waitlistEntries>>

\* ------------------------------------------------------------------------
\* POST /api/login
\* ------------------------------------------------------------------------
\* the handler, on the store as it is when storage.getUserByUsername reads it
loginHandler(body, store, t) ==
    LET username == normalizeUsername(body.username, body.email)
        user == getUserByUsername(store, username)
        checked == passwordUtils_verify(Val(body.password), Val(user).password)
    IN  IF username = Str0 \/ ~IsSome(body.password) \/ ~Truthy(Val(body.password))
        THEN [found |-> FALSE,
              res |-> Response(400, [message |-> "Username and password are required"])]
        ELSE IF ~IsSome(user)
        THEN [found |-> FALSE,
              res |-> Response(401, [message |-> "Invalid credentials"])]
        ELSE IF checked.threw
        THEN [found |-> TRUE, res |-> InternalError]
        ELSE IF ~checked.ok
        THEN [found |-> TRUE,
              res |-> Response(401, [message |-> "Invalid credentials"])]
        ELSE [found |-> TRUE,
              res |-> Response(200,
                        [user |-> [id       |-> Val(user).id,
                                   username |-> Val(user).username,
                                   role     |-> IF Val(user).role # ""
                                                THEN Val(user).role ELSE "user"],
                         token        |-> jwtUtils_generateToken(Val(user), t),
                         refreshToken |-> jwtUtils_generateRefreshToken(Val(user).id, t),
                         message      |-> "Login successful"])]

Login(r, req) ==
    LET g == ApiPrefix(req, None)
        chain == [general |-> Some(g), strict |-> None]
        out == loginHandler(req.body, users, now)
    IN  /\ SlotFree(r)
        /\ ApplyLimiters("login", chain)
        /\ reqs' = [reqs EXCEPT ![r] =
             IF ~g.next
             THEN Done(req, "login", chain, "general", Val(g.res))
             ELSE Done(req, "login", chain, "handler", out.res)
                     @@ [found |-> out.found]]
        /\ UNCHANGED <<now, nodeEnv, storageKind, waitlistEntries, users>>

\* ------------------------------------------------------------------------
\* GET /api/me: authenticate, then the profile of req.user
\* ------------------------------------------------------------------------
meHandler(user, store) ==
    LET found == IF IsSome(user.username)
                 THEN getUserByUsername(store, Val(user.username))
                 ELSE None
    IN  IF ~IsSome(found)
        THEN Response(404, [message |-> "User not found"])
        ELSE Response(200, [id            |-> Val(found).id,
                            username      |-> Val(found).username,
                            role          |-> Val(found).role,
                            emailVerified |-> Val(found).emailVerified])

MeRequest(r, req) ==
    LET g == ApiPrefix(req, None)
        chain == [general |-> Some(g), strict |-> None]
        a == authenticate(req, now)
    IN  /\ SlotFree(r)
        /\ ApplyLimiters("me", chain)
        /\ reqs' = [reqs EXCEPT ![r] =
             IF ~g.next
             THEN Done(req, "me", chain, "general", Val(g.res))
                     @@ [at |-> now, user |-> None]
             ELSE IF ~a.next
             THEN Done(req, "me", chain, "auth", Val(a.res))
                     @@ [at |-> now, user |-> None]
             ELSE Done(req, "me", chain, "handler", meHandler(Val(a.user), users))
                     @@ [at |-> now, user |-> a.user]]
        /\ UNCHANGED <<now, nodeEnv, storageKind, waitlistEntries, users>>

\* ------------------------------------------------------------------------
\* Admin routes: authenticate, authorize(roles), handler
\* ------------------------------------------------------------------------
\* app.<method>(path, authenticate, authorize(roles), handler) behind the /api
\* prefix; stage: the stage that answered, or "handler"
AdminChain(req, roles) ==
    LET g == ApiPrefix(req, None)
        a == authenticate(req, now)
        z == authorize(roles, a.user)
    IN  IF ~g.next
        THEN [stage |-> "general", res |-> g.res, general |-> Some(g),
              strict |-> None, user |-> None]
        ELSE IF ~a.next
        THEN [stage |-> "auth", res |-> a.res, general |-> Some(g),
              strict |-> None, user |-> None]
        ELSE IF IsSome(z)
        THEN [stage |-> "authorize", res |-> z, general |-> Some(g),
              strict |-> None, user |-> a.user]
        ELSE [stage |-> "handler", res |-> None, general |-> Some(g),
              strict |-> None, user |-> a.user]

\* what the admin listing returns of a user
SafeUser(user) ==
    [id |-> user.id, username |-> user.username, role |-> user.role,
     emailVerified |-> user.emailVerified]

\* storage.updateUser(userId, updates), for the updates { role }
updateUser(store, userId, role) ==
    [i \in 1..Len(store) |->
        IF store[i].id = userId THEN [store[i] EXCEPT !.role = role] ELSE store[i]]

AdminAnswer(req, route, chain, res) ==
    Done(req, route, chain, chain.stage, res) @@ [user |-> chain.user]

\* GET /api/admin/users
AdminListUsers(r, req) ==
    LET chain == AdminChain(req, <<"admin">>)
    IN  /\ SlotFree(r)
        /\ ApplyLimiters("admin_users", chain)
        /\ reqs' = [reqs EXCEPT ![r] =
             IF chain.stage # "handler"
             THEN AdminAnswer(req, "admin_users", chain, Val(chain.res))
             ELSE AdminAnswer(req, "admin_users", chain,
                    Response(200, [users |-> [i \in 1..Len(users) |-> SafeUser(users[i])]]))]
        /\ UNCHANGED <<now, nodeEnv, storageKind, users, waitlistEntries>>

\* PUT /api/admin/users/:userId/role, body { role }
AdminUpdateRole(r, req) ==
    LET chain == AdminChain(req, <<"admin">>)
        role == req.body.role
        valid == IsSome(role) /\ Val(role) \in {"user", "admin", "moderator"}
    IN  /\ SlotFree(r)
        /\ ApplyLimiters("admin_role", chain)
        /\ users' = IF chain.stage = "handler" /\ valid
                    THEN updateUser(users, req.body.userId, Val(role))
                    ELSE users
        /\ reqs' = [reqs EXCEPT ![r] =
             IF chain.stage # "handler"
             THEN AdminAnswer(req, "admin_role", chain, Val(chain.res))
             ELSE IF ~valid
             THEN AdminAnswer(req, "admin_role", chain,
                    Response(400, [message |-> "Invalid role"]))
             ELSE AdminAnswer(req, "admin_role", chain,
                    Response(200, [message |-> "User role updated successfully"]))]
        /\ UNCHANGED <<now, nodeEnv, storageKind, waitlistEntries>>

\* GET /api/admin/waitlist
AdminListWaitlist(r, req) ==
    LET chain == AdminChain(req, <<"admin", "moderator">>)
    IN  /\ SlotFree(r)
        /\ ApplyLimiters("admin_waitlist", chain)
        /\ reqs' = [reqs EXCEPT ![r] =
             IF chain.stage # "handler"
             THEN AdminAnswer(req, "admin_waitlist", chain, Val(chain.res))
             ELSE AdminAnswer(req, "admin_waitlist", chain,
                    Response(200, [entries |-> waitlistEntries]))]
        /\ UNCHANGED <<now, nodeEnv, storageKind, users, waitlistEntries>>

\* ------------------------------------------------------------------------
\* Email verification
\* ------------------------------------------------------------------------
\* generateVerificationToken(): 32 random bytes in hex, a fresh value per call
generateVerificationToken(n) ==
    CASE n = 1 -> "token-1"
      [] n = 2 -> "token-2"
      [] n = 3 -> "token-3"
      [] n = 4 -> "token-4"
      [] OTHER -> "token-5"

VerificationTtlMs == 24 * 60 * 60 * 1000

\* createVerificationExpiry(): the date 24 hours after t
createVerificationExpiry(t) == t + VerificationTtlMs

\* isVerificationExpired(expiryDate) at time t: new Date() > expiryDate
isVerificationExpired(expiryDate, t) == t > expiryDate

\* hashVerificationToken: SHA-256 in hex, one-way and without collisions
hashVerificationToken(token) == [sha256 |-> token]

\* stored strings: a hex digest [sha256 |-> token], 64 characters long, or
\* any other text [text |-> characters]
DigestHexLength == 64
IsDigest(s) == "sha256" \in DOMAIN s
ByteLength(s) == IF IsDigest(s) THEN DigestHexLength ELSE Len(s.text)

\* crypto.timingSafeEqual(Buffer.from(a), Buffer.from(b)): throws a RangeError
\* when the byte lengths differ
timingSafeEqual(a, b) ==
    IF ByteLength(a) # ByteLength(b)
    THEN [threw |-> TRUE, ok |-> FALSE]
    ELSE [threw |-> FALSE,
          ok |-> IF IsDigest(a) # IsDigest(b) THEN FALSE ELSE a = b]

\* a comparison that accepts every token
verifyTokenHash_any(token, hash) == [threw |-> FALSE, ok |-> TRUE]

\* verifyTokenHash: timingSafeEqual on the hex digest of the token and the
\* stored hash
verifyTokenHash(token, hash) ==
    timingSafeEqual(hashVerificationToken(token), hash)

\* createWaitlistEntry: MemStorage builds the entry from email, name and
\* interests alone, with the verification fields null, and sets it under the
\* email; DbStorage inserts the object it is given as a row, and the unique
\* constraint on waitlist.email makes the insert throw when the email is taken
createWaitlistEntry(kind, store, entry, n) ==
    LET row == [id |-> randomUUID(n), email |-> entry.email, name |-> entry.name,
                emailVerified |-> IF kind = "db" THEN entry.emailVerified ELSE None,
                emailVerificationToken |->
                    IF kind = "db" THEN entry.emailVerificationToken ELSE None,
                emailVerificationExpires |->
                    IF kind = "db" THEN entry.emailVerificationExpires ELSE None]
    IN  IF kind = "db" /\ MapHas(store, entry.email)
        THEN [threw |-> TRUE, store |-> store, created |-> None]
        ELSE [threw |-> FALSE, store |-> MapSet(store, entry.email, row),
              created |-> Some(row)]

getWaitlistEntryByEmail(store, email) ==
    IF MapHas(store, email) THEN Some(store[email]) ELSE None

\* an update that marks the entry verified and keeps the token and its expiry
updateWaitlistVerification_keepToken(store, email, t) ==
    IF MapHas(store, email)
    THEN MapSet(store, email, [store[email] EXCEPT !.emailVerified = Some(t)])
    ELSE store

\* updateWaitlistVerification(email, true, null, null) at time t
updateWaitlistVerification(store, email, t) ==
    IF MapHas(store, email)
    THEN MapSet(store, email,
                [store[email] EXCEPT !.emailVerified = Some(t),
                                     !.emailVerificationToken = None,
                                     !.emailVerificationExpires = None])
    ELSE store

\* updateUserVerification(email, true, null, null) at time t: MemStorage
\* updates the first user with that username, DbStorage every row with it
updateUserVerification(kind, store, email, t) ==
    LET hits == {i \in 1..Len(store) : store[i].username = email}
        first == CHOOSE i \in hits : \A j \in hits : i <= j
    IN  [i \in 1..Len(store) |->
            IF i \in hits /\ (kind = "db" \/ i = first)
            THEN [store[i] EXCEPT !.emailVerified = Some(t),
                                  !.emailVerificationToken = None,
                                  !.emailVerificationExpires = None]
            ELSE store[i]]

\* POST /api/waitlist after storage.getWaitlistEntryByEmail: the duplicate
\* check, the token, its expiry and its hash, up to storage.createWaitlistEntry
WaitlistLookup(r) ==
    LET email == Val(reqs[r].req.body.email)
        verificationToken == generateVerificationToken(r)
    IN  /\ reqs[r].pc = "wl_lookup"
        /\ reqs' = [reqs EXCEPT ![r] =
             IF IsSome(getWaitlistEntryByEmail(waitlistEntries, email))
             THEN [reqs[r] EXCEPT !.pc = "done"]
                     @@ [res |-> Response(409, [message |-> "Email already registered"])]
             ELSE [reqs[r] EXCEPT !.pc = "wl_insert"]
                     @@ [verificationToken |-> verificationToken,
                         entryData |->
                            [name |-> Val(reqs[r].req.body.name),
                             email |-> email,
                             emailVerified |-> None,
                             emailVerificationToken |->
                                 Some(hashVerificationToken(verificationToken)),
                             emailVerificationExpires |->
                                 Some(createVerificationExpiry(now))]]]
        /\ UNCHANGED <<now, nodeEnv, userRequestCounts, ipRequestCounts, storageKind,
                       waitlistEntries, users, allowed, made>>

\* const created = await storage.createWaitlistEntry(entryData), the
\* verification email (mail: what emailService.sendWaitlistVerification is
\* given) and the response
WaitlistInsert(r) ==
    LET out == createWaitlistEntry(storageKind, waitlistEntries, reqs[r].entryData,
                                   Cardinality(DOMAIN waitlistEntries) + 1)
    IN  /\ reqs[r].pc = "wl_insert"
        /\ waitlistEntries' = out.store
        /\ reqs' = [reqs EXCEPT ![r] =
             [reqs[r] EXCEPT !.pc = "done"]
                @@ (IF out.threw
                    THEN [res |-> StoreError]
                    ELSE [res |-> Response(201,
                                    [id      |-> Val(out.created).id,
                                     name    |-> Val(out.created).name,
                                     email   |-> Val(out.created).email,
                                     message |-> "Please check your email to verify your address and complete your waitlist registration."]),
                          mail |-> [to    |-> reqs[r].entryData.email,
                                    token |-> reqs[r].verificationToken]])]
        /\ UNCHANGED <<now, nodeEnv, userRequestCounts, ipRequestCounts, storageKind,
                       users, allowed, made>>

\* the verification fields of the subject of a confirm request: the waitlist
\* entry with that email, or the user with that username
VerificationSubject(kind, email) ==
    IF kind = "verify_waitlist"
    THEN getWaitlistEntryByEmail(waitlistEntries, email)
    ELSE getUserByUsername(users, email)

\* GET /api/verify-waitlist and GET /api/verify-registration (kind), query
\* { token, email }, up to the first await
VerifyReceive(r, kind, req) ==
    LET g == ApiPrefix(req, None)
        chain == [general |-> Some(g), strict |-> None]
        missing == \/ ~IsSome(req.body.token) \/ Val(req.body.token) = ""
                   \/ ~IsSome(req.body.email) \/ Val(req.body.email) = Str0
    IN  /\ SlotFree(r)
        /\ ApplyLimiters(kind, chain)
        /\ reqs' = [reqs EXCEPT ![r] =
             IF ~g.next
             THEN Done(req, kind, chain, "general", Val(g.res))
             ELSE IF missing
             THEN Done(req, kind, chain, "validation",
                       Response(400, [message |-> "Token and email are required"]))
             ELSE [pc |-> "v_lookup", route |-> kind, req |-> req,
                   stage |-> "handler", limits |-> Verdicts(chain),
                   verifiedBefore |->
                      /\ IsSome(VerificationSubject(kind, Val(req.body.email)))
                      /\ IsSome(Val(VerificationSubject(kind, Val(req.body.email))).emailVerified)]]
        /\ UNCHANGED <<now, nodeEnv, storageKind, waitlistEntries, users>>

\* the handler after the subject was read: the three checks, up to the
\* update; seen and at record what was read and when
VerifyLookup(r) ==
    LET token == Val(reqs[r].req.body.token)
        subject == VerificationSubject(reqs[r].route, Val(reqs[r].req.body.email))
        seen == [seen |-> subject, at |-> now]
    IN  /\ reqs[r].pc = "v_lookup"
        /\ reqs' = [reqs EXCEPT ![r] =
             IF ~IsSome(subject) \/ ~IsSome(Val(subject).emailVerificationToken)
             THEN [reqs[r] EXCEPT !.pc = "done"] @@ seen
                     @@ [res |-> Response(404, [message |-> "Invalid verification link"])]
             ELSE IF verifyTokenHash(token, Val(Val(subject).emailVerificationToken)).threw
             THEN [reqs[r] EXCEPT !.pc = "done"] @@ seen @@ [res |-> InternalError]
             ELSE IF ~verifyTokenHash(token, Val(Val(subject).emailVerificationToken)).ok
             THEN [reqs[r] EXCEPT !.pc = "done"] @@ seen
                     @@ [res |-> Response(400, [message |-> "Invalid verification token"])]
             ELSE IF /\ IsSome(Val(subject).emailVerificationExpires)
                     /\ isVerificationExpired(Val(Val(subject).emailVerificationExpires), now)
             THEN [reqs[r] EXCEPT !.pc = "done"] @@ seen
                     @@ [res |-> Response(400, [message |-> "Verification link has expired"])]
             ELSE [reqs[r] EXCEPT !.pc = "v_update"] @@ seen]
        /\ UNCHANGED <<now, nodeEnv, userRequestCounts, ipRequestCounts, storageKind,
                       waitlistEntries, users, allowed, made>>

\* await storage.update...Verification(email, true, null, null) and the answer
VerifyUpdate(r) ==
    LET email == Val(reqs[r].req.body.email)
    IN  /\ reqs[r].pc = "v_update"
        /\ IF reqs[r].route = "verify_waitlist"
           THEN /\ waitlistEntries' = updateWaitlistVerification(waitlistEntries, email, now)
                /\ users' = users
           ELSE /\ users' = updateUserVerification(storageKind, users, email, now)
                /\ waitlistEntries' = waitlistEntries
        /\ reqs' = [reqs EXCEPT ![r] =
             [reqs[r] EXCEPT !.pc = "done"]
                @@ [res |-> Response(200,
                      [message |-> IF reqs[r].route = "verify_waitlist"
                                   THEN "Email verified successfully! You've been added to the waitlist."
                                   ELSE "Email verified successfully! Your account is now active."])]]
        /\ UNCHANGED <<now, nodeEnv, userRequestCounts, ipRequestCounts, storageKind,
                       allowed, made>>

\* ------------------------------------------------------------------------
\* Requests
\* ------------------------------------------------------------------------
NoHeaders == [apiKey |-> None, origin |-> None, referer |-> None, authorization |-> None]
GoodKey == [NoHeaders EXCEPT !.apiKey = Some(API_KEY)]

\* header sets sent to the public endpoints
PublicHeaders ==
    { GoodKey,
      [NoHeaders EXCEPT !.apiKey = Some("wrong-key")],
      [GoodKey EXCEPT !.origin = Some(Origin("https:", "evil.example"))] }

Request(ip, headers, body) ==
    [ip |-> ip, apiKey |-> headers.apiKey, origin |-> headers.origin,
     referer |-> headers.referer, authorization |-> headers.authorization,
     body |-> body]

EmptyRegisterBody == [username |-> None, email |-> None, password |-> None]
EmptyWaitlistBody == [name |-> None, email |-> None, interests |-> None]

\* ------------------------------------------------------------------------
\* The rate limiters under load.  One connection at a time; client ip1 uses
\* the public endpoints (with bodies the handlers refuse at validation),
\* client ip2 an endpoint behind the general limiter only; a behaviour has
\* one of the two clients.
\* ------------------------------------------------------------------------
LimitsInit ==
    /\ Init
    /\ nodeEnv = "development"
    /\ storageKind = "mem"

\* ip1 has sent fewer than MaxPublicReqs requests in its quarter of an hour
PublicClientMaySend ==
    /\ ~MapHas(userRequestCounts, "ip2")
    /\ IF MapHas(userRequestCounts, "ip1") /\ now <= userRequestCounts["ip1"].resetTime
       THEN userRequestCounts["ip1"].count < MaxPublicReqs
       ELSE TRUE

LimitsNext ==
    \/ /\ MapHas(userRequestCounts, "ip2")
       /\ now < MaxTicks * QuarterMs
       /\ AdvanceTime(QuarterMs)
    \/ /\ ~MapHas(userRequestCounts, "ip2")
       /\ now < MaxTicks * HourMs
       /\ AdvanceTime(HourMs)
    \/ /\ PublicClientMaySend
       /\ \E h \in PublicHeaders :
             RegisterReceive(1, Request("ip1", h, EmptyRegisterBody))
    \/ /\ PublicClientMaySend
       /\ \E h \in PublicHeaders :
             WaitlistReceive(1, Request("ip1", h, EmptyWaitlistBody))
    \/ /\ ~MapHas(userRequestCounts, "ip1")
       /\ DebugRequest(1, Request("ip2", NoHeaders, [x \in {} |-> 0]))

SpecLimits == LimitsInit /\ [][LimitsNext]_vars

Answered(r) == reqs[r].pc = "done"

\* C5: between two consecutive resets of a key's window a limiter with ceiling
\* maxRequests lets at most maxRequests requests through, and the stored count is
\* exactly the number let through since the reset (no lost or duplicated increment).
C5_AllowedWithinCeiling ==
    \A k \in IPs :
        /\ Count(allowed["general"], k) <= GeneralMax
        /\ Count(allowed["register"], k) <= RegisterMax
        /\ Count(allowed["waitlist"], k) <= WaitlistMax
        /\ MapHas(userRequestCounts, k)
              => userRequestCounts[k].count = Count(allowed["general"], k)
        /\ MapHas(ipRequestCounts, k)
              => ipRequestCounts[k].count
                    = Count(allowed["register"], k) + Count(allowed["waitlist"], k)

\* the register limiter has let five requests through in the window and
\* refuses the next one
C5_Witness ==
    /\ Answered(1)
    /\ reqs[1].route = "register"
    /\ reqs[1].stage = "strict"
    /\ Count(allowed["register"], "ip1") = RegisterMax
    /\ ipRequestCounts["ip1"].count = RegisterMax

\* C6: every Denied result carries retryAfterSeconds = windowResetAt - now > 0
\* (a request at now >= windowResetAt is Allowed and resets the window).
C6_DeniedInsideWindow ==
    \A r \in Slots :
        /\ (Answered(r) /\ reqs[r].stage = "strict")
              => reqs[r].res.body.retryAfter > 0
        /\ (Answered(r) /\ reqs[r].stage = "general")
              => reqs[r].res.body.message[2] > 0

\* C7: an IP that has made fewer than 5 register (10 waitlist) requests in its
\* current window is let through by that route's limiter, whatever it sent to
\* the other route.
C7_CeilingsIndependent ==
    \A r \in Slots :
        (/\ Answered(r)
         /\ reqs[r].route \in {"register", "waitlist"}
         /\ IsSome(reqs[r].limits.strict)
         /\ Count(made[reqs[r].route], reqs[r].req.ip) <= StrictMax(reqs[r].route))
            => Val(reqs[r].limits.strict).next

\* C8: a request refused by the API key check or by origin validation leaves
\* every rate-limit counter unchanged.
C8_RefusalKeepsCounters ==
    [][ (/\ now' = now
         /\ reqs'[1].pc = "done"
         /\ reqs'[1].stage \in {"apikey", "origin"})
           => (/\ userRequestCounts' = userRequestCounts
               /\ ipRequestCounts' = ipRequestCounts) ]_vars

\* ------------------------------------------------------------------------
\* Accounts: MaxReqs requests in flight at once, each slot used for one
\* request, the store either implementation
\* ------------------------------------------------------------------------
UserA == <<"a", "@", "b", ".", "c">>
\* the same address as the client may type it
UserAVariant == <<" ", "A", "@", "B", ".", "c">>
UserB == <<"d", "@", "b", ".", "c">>
Secret == <<"s", "e", "c", "r", "e", "t">>
Wrong == <<"w", "r", "o", "n", "g", "1">>
\* the password values a client sends
Passwords == {JsonString(Secret), JsonString(Wrong), JsonNumber(123456)}

RegisterBody(u, p) == [username |-> Some(u), email |-> None, password |-> Some(p)]

\* slots are taken in order
FreshSlot(r) ==
    /\ reqs[r].pc = "idle"
    /\ \A q \in 1..(r - 1) : reqs[q].pc # "idle"

AccountsInit ==
    /\ Init
    /\ nodeEnv = "development"

AccountsNext ==
    \/ \E r \in Slots, u \in {UserA, UserAVariant} :
          /\ FreshSlot(r)
          /\ RegisterReceive(r, Request("ip1", GoodKey, RegisterBody(u, JsonString(Secret))))
    \/ \E r \in Slots : RegisterLookup(r)
    \/ \E r \in Slots, salt \in Salts : RegisterHash(r, salt)
    \/ \E r \in Slots : RegisterInsert(r)
    \/ \E r \in Slots :
          /\ FreshSlot(r)
          /\ CreateUserRequest(r, Request("ip1", NoHeaders, RegisterBody(UserAVariant, JsonString(Secret))))
    \/ \E r \in Slots, u \in {UserA, UserB}, p \in Passwords :
          /\ FreshSlot(r)
          /\ Login(r, Request("ip1", NoHeaders, RegisterBody(u, p)))

SpecAccounts == AccountsInit /\ [][AccountsNext]_vars

HasField(rec, f) == f \in DOMAIN rec
Status(r) == reqs[r].res.status

\* the register requests for normalized username u that reached the handler
\* with a valid body
RegisterRequests(u) ==
    {r \in Slots : /\ reqs[r].pc # "idle"
                   /\ reqs[r].route = "register"
                   /\ reqs[r].stage = "handler"
                   /\ reqs[r].username = u}

\* C1: of N >= 2 register requests with the same normalized username, however
\* their lookup, hashing and insert steps interleave, exactly one is answered
\* 201 and every other one 409.
C1_OneCreatedRestConflict ==
    LET S == RegisterRequests(UserA)
    IN  (Cardinality(S) >= 2 /\ \A r \in S : Answered(r))
           => /\ Cardinality({r \in S : Status(r) = 201}) = 1
              /\ \A r \in S : Status(r) \in {201, 409}

\* C2: no two stored identities have the same username, and every stored
\* username is trimmed and lowercase.
C2_UsernamesUniqueNormalized ==
    /\ \A i, j \in 1..Len(users) :
          i # j => users[i].username # users[j].username
    /\ \A i \in 1..Len(users) :
          users[i].username = toLowerCase(trim(users[i].username))

\* C3: a register request whose insert fails on the duplicate key is answered
\* 409 "User already exists", not 500.
C3_ConflictIs409 ==
    \A r \in Slots :
        (Answered(r) /\ reqs[r].route = "register" /\ HasField(reqs[r], "threw")
           /\ reqs[r].threw)
          => reqs[r].res = Response(409, [message |-> "User already exists"])

\* the login requests with a non-empty username and password that reached the
\* handler and did not succeed
FailedLogins ==
    {r \in Slots : /\ Answered(r)
                   /\ reqs[r].route = "login"
                   /\ reqs[r].stage = "handler"
                   /\ normalizeUsername(reqs[r].req.body.username,
                                        reqs[r].req.body.email) # Str0
                   /\ IsSome(reqs[r].req.body.password)
                   /\ Truthy(Val(reqs[r].req.body.password))
                   /\ Status(r) # 200}

\* C4: a login that does not succeed is answered 401 "Invalid credentials",
\* status and body the same whether the username is unknown or the password
\* is wrong.
C4_LoginFailuresAlike ==
    /\ \A r \in FailedLogins :
          reqs[r].res = Response(401, [message |-> "Invalid credentials"])
    /\ \A r1, r2 \in FailedLogins : reqs[r1].res = reqs[r2].res

\* ------------------------------------------------------------------------
\* Bearer tokens: a client registers, time passes, and clients behind the
\* same address present what the server issued, or what they made of it
\* ------------------------------------------------------------------------
DayMs == 24 * 60 * 60 * 1000

\* the access tokens the server has handed out
IssuedTokens ==
    {reqs[q].res.body.token :
        q \in {q \in Slots : /\ Answered(q)
                             /\ reqs[q].route = "register"
                             /\ Status(q) = 201}}

\* an issued token with the role raised and the expiry moved, which its
\* holder cannot sign
Tampered(tok) ==
    [tok EXCEPT !.sig = "forged", !.payload.role = Some("admin"),
                !.exp = @ + JWT_EXPIRES_IN]

\* a string that is no JWT
Garbage ==
    [payload |-> [id |-> "", username |-> None, role |-> None, type |-> None],
     iat |-> 0, exp |-> 0, sig |-> "malformed"]

Bearer(tok) == Some([scheme |-> "Bearer", credentials |-> Some(tok)])

AuthorizationHeaders ==
    {None, Some([scheme |-> "Bearer", credentials |-> None]), Bearer(Garbage)}
       \cup {Bearer(tok) : tok \in IssuedTokens}
       \cup {Bearer(Tampered(tok)) : tok \in IssuedTokens}
       \cup {Some([scheme |-> "Basic", credentials |-> Some(tok)]) : tok \in IssuedTokens}

AuthInit ==
    /\ Init
    /\ nodeEnv = "development"
    /\ storageKind = "mem"

AuthNext ==
    \/ /\ now < MaxTicks * DayMs
       /\ AdvanceTime(DayMs)
    \/ \E r \in Slots :
          /\ FreshSlot(r)
          /\ RegisterReceive(r, Request("ip1", GoodKey, RegisterBody(UserA, JsonString(Secret))))
    \/ \E r \in Slots : RegisterLookup(r)
    \/ \E r \in Slots : RegisterHash(r, "salt1")
    \/ \E r \in Slots : RegisterInsert(r)
    \/ \E r \in Slots, h \in AuthorizationHeaders :
          /\ FreshSlot(r)
          /\ MeRequest(r, Request("ip1", [NoHeaders EXCEPT !.authorization = h],
                                  [x \in {} |-> 0]))

SpecAuth == AuthInit /\ [][AuthNext]_vars

\* the requests to the protected endpoint that passed the general limiter
MeRequests ==
    {r \in Slots : Answered(r) /\ reqs[r].route = "me" /\ reqs[r].stage # "general"}

HasBearer(r) ==
    /\ IsSome(reqs[r].req.authorization)
    /\ Val(reqs[r].req.authorization).scheme = "Bearer"
    /\ IsSome(Val(reqs[r].req.authorization).credentials)

TokenOf(r) == Val(Val(reqs[r].req.authorization).credentials)

\* the request carried a token the server signed and that had not expired
\* when the request arrived
GoodToken(r) ==
    /\ HasBearer(r)
    /\ TokenOf(r).sig = "valid"
    /\ ClockTimestamp(reqs[r].at) < TokenOf(r).exp

\* C9: the general limit of a request with a valid bearer token is counted
\* against the token's identity id, not against the IP.
C9_GeneralKeyIsIdentity ==
    \A r \in Slots :
        (Answered(r) /\ reqs[r].route = "me" /\ GoodToken(r))
           => reqs[r].limits.general.key = TokenOf(r).payload.id

\* C10: the handler of a protected endpoint runs only for a bearer token with
\* a valid signature that has not expired; every other request is answered
\* 401, an expired token exactly like a forged or corrupted one; on success
\* req.user is the token's id, username and role.
C10_AuthenticateGate ==
    \A r \in MeRequests :
        /\ reqs[r].stage = "handler" => GoodToken(r)
        /\ reqs[r].stage # "handler" => Status(r) = 401
        /\ (HasBearer(r) /\ ~GoodToken(r))
              => reqs[r].res = Response(401, [error   |-> "Authentication failed",
                                              message |-> "Invalid or expired token"])
        /\ GoodToken(r)
              => reqs[r].user = Some([id       |-> TokenOf(r).payload.id,
                                      username |-> TokenOf(r).payload.username,
                                      role     |-> TokenOf(r).payload.role])

\* an expired token and a forged one, both refused
C10_Witness ==
    \E r1, r2 \in MeRequests :
        /\ HasBearer(r1) /\ TokenOf(r1).sig = "valid" /\ ~GoodToken(r1)
        /\ HasBearer(r2) /\ TokenOf(r2).sig = "forged"
        /\ reqs[r1].res = reqs[r2].res

\* ------------------------------------------------------------------------
\* Administration: a database provisioned with an administrator, a moderator
\* and a plain user; clients log in and call the admin routes with the
\* tokens they were given
\* ------------------------------------------------------------------------
AdminName == <<"r", "@", "b", ".", "c">>
ModName == <<"m", "@", "b", ".", "c">>

StoredUser(id, username, role) ==
    [id |-> id, username |-> username,
     password |-> passwordUtils_hash(Secret, "salt1"), role |-> role,
     emailVerified |-> None, emailVerificationToken |-> None,
     emailVerificationExpires |-> None]

ProvisionedUsers ==
    << StoredUser("uuid-1", AdminName, "admin"),
       StoredUser("uuid-2", ModName, "moderator"),
       StoredUser("uuid-3", UserA, "user") >>

AdminInit ==
    /\ now = 0
    /\ nodeEnv = "development"
    /\ userRequestCounts = EmptyMap
    /\ ipRequestCounts = EmptyMap
    /\ storageKind = "db"
    /\ users = ProvisionedUsers
    /\ waitlistEntries = EmptyMap
    /\ reqs = [r \in Slots |-> IdleSlot]
    /\ allowed = [l \in Limiters |-> EmptyMap]
    /\ made = [l \in Limiters |-> EmptyMap]

\* the access and refresh tokens of the login responses
LoginTokens ==
    UNION {{reqs[q].res.body.token, reqs[q].res.body.refreshToken} :
              q \in {q \in Slots : /\ Answered(q)
                                   /\ reqs[q].route = "login"
                                   /\ Status(q) = 200}}

AdminHeaders == {None} \cup {Bearer(tok) : tok \in LoginTokens}

AdminRequest(h, body) ==
    Request("ip1", [NoHeaders EXCEPT !.authorization = h], body)

RoleBodies ==
    {[userId |-> "uuid-3", role |-> ro] : ro \in {Some("admin"), Some("root")}}

AdminNext ==
    \/ \E r \in Slots, u \in {AdminName, ModName, UserA} :
          /\ FreshSlot(r)
          /\ Login(r, Request("ip1", NoHeaders, RegisterBody(u, JsonString(Secret))))
    \/ \E r \in Slots, h \in AdminHeaders :
          /\ FreshSlot(r)
          /\ AdminListUsers(r, AdminRequest(h, [x \in {} |-> 0]))
    \/ \E r \in Slots, h \in AdminHeaders, b \in RoleBodies :
          /\ FreshSlot(r)
          /\ AdminUpdateRole(r, AdminRequest(h, b))
    \/ \E r \in Slots, h \in AdminHeaders :
          /\ FreshSlot(r)
          /\ AdminListWaitlist(r, AdminRequest(h, [x \in {} |-> 0]))

SpecAdmin == AdminInit /\ [][AdminNext]_vars

AdminRoutes == {"admin_users", "admin_role", "admin_waitlist"}

\* the allow-list of each admin route
AllowList(route) ==
    IF route = "admin_waitlist" THEN {"admin", "moderator"} ELSE {"admin"}

\* the role claim attached to the answered request in slot q, if any
RoleAttached(q) ==
    IF IsSome(q.user) THEN Val(q.user).role ELSE None

\* C11: the handler of an admin route runs, and the store is touched, only
\* when the role attached to the request is in the route's allow-list; every
\* other request is answered 403 (401 when no identity is attached) and
\* leaves the store unchanged.
C11_AdminGate ==
    [][ \A r \in Slots :
          (/\ reqs[r].pc = "idle"
           /\ reqs'[r].pc = "done"
           /\ reqs'[r].route \in AdminRoutes
           /\ reqs'[r].stage # "general")
             => LET q == reqs'[r]
                    ok == /\ IsSome(RoleAttached(q))
                          /\ Val(RoleAttached(q)) \in AllowList(q.route)
                IN  /\ q.stage = "handler" => ok
                    /\ ~ok => /\ users' = users
                              /\ waitlistEntries' = waitlistEntries
                              /\ q.res.status = IF IsSome(q.user) THEN 403 ELSE 401 ]_vars

\* a role update refused for the administrator's refresh token, which carries
\* no role claim, and one carried out for the administrator's access token
C11_Witness ==
    \E r1, r2 \in Slots :
        /\ Answered(r1) /\ reqs[r1].route = "admin_role"
        /\ reqs[r1].stage = "authorize" /\ Status(r1) = 403
        /\ IsSome(reqs[r1].user) /\ RoleAttached(reqs[r1]) = None
        /\ Answered(r2) /\ reqs[r2].route = "admin_role"
        /\ reqs[r2].stage = "handler" /\ Status(r2) = 200
        /\ \E i \in 1..Len(users) : users[i].id = "uuid-3" /\ users[i].role = "admin"

\* ------------------------------------------------------------------------
\* The gates of the public endpoints: one client, one connection, every
\* combination of the headers the gates read, in either mode of the server
\* ------------------------------------------------------------------------
ApiKeyHeaders == {None, Some(""), Some("wrong-key"), Some(API_KEY)}
OriginHeaders ==
    {None, Some(Origin("http:", "localhost:3000")), Some(Origin("https:", "evil.example"))}
RefererHeaders ==
    {None, Some("http://localhost:3000/signup"), Some("https://evil.example/page"),
     Some("not a url")}

GateHeaders ==
    {[apiKey |-> k, origin |-> o, referer |-> f, authorization |-> None] :
        k \in ApiKeyHeaders, o \in OriginHeaders, f \in RefererHeaders}

GatesInit ==
    /\ Init
    /\ storageKind = "mem"

\* the client has sent fewer than MaxGateReqs requests
GateClientMaySend == Count(allowed["general"], "ip1") < MaxGateReqs

GatesNext ==
    \/ /\ GateClientMaySend
       /\ \E h \in GateHeaders :
             RegisterReceive(1, Request("ip1", h, EmptyRegisterBody))
    \/ /\ GateClientMaySend
       /\ \E h \in GateHeaders :
             WaitlistReceive(1, Request("ip1", h, EmptyWaitlistBody))

SpecGates == GatesInit /\ [][GatesNext]_vars

\* the requests to the public endpoints that both limiters let through
PastLimiters ==
    {r \in Slots : /\ Answered(r)
                   /\ reqs[r].route \in {"register", "waitlist"}
                   /\ reqs[r].stage \notin {"general", "strict"}}

\* C12 as stated: through only with the configured key; 401 when the header
\* is absent, 403 when it is present but different; a refused request never
\* reaches the handler.
C12_ApiKeyGate ==
    \A r \in PastLimiters :
        LET k == reqs[r].req.apiKey
        IN  /\ reqs[r].stage # "apikey" <=> (IsSome(k) /\ Val(k) = API_KEY)
            /\ ~IsSome(k) => (reqs[r].stage = "apikey" /\ Status(r) = 401)
            /\ (IsSome(k) /\ Val(k) # API_KEY)
                  => (reqs[r].stage = "apikey" /\ Status(r) = 403)

\* C12, amended: through only with the configured key; 401 when the header
\* is absent or empty, 403 when it holds another non-empty value; a refused
\* request never reaches the handler.
C12_ApiKeyGateEmptyAs401 ==
    \A r \in PastLimiters :
        LET k == reqs[r].req.apiKey
        IN  /\ reqs[r].stage # "apikey" <=> (IsSome(k) /\ Val(k) = API_KEY)
            /\ (~IsSome(k) \/ Val(k) = "")
                  => (reqs[r].stage = "apikey" /\ Status(r) = 401)
            /\ (IsSome(k) /\ Val(k) \notin {"", API_KEY})
                  => (reqs[r].stage = "apikey" /\ Status(r) = 403)

\* a request with an empty x-api-key header, answered 401 by the key check
C12_Witness ==
    \E r \in PastLimiters :
        /\ reqs[r].req.apiKey = Some("")
        /\ reqs[r].stage = "apikey"
        /\ Status(r) = 401

\* the origin derived from a Referer header, where it parses
RefererOrigin(referer) ==
    IF URL(referer).valid
    THEN Some(Origin(URL(referer).protocol, URL(referer).host))
    ELSE None

\* C13: validateOrigin accepts a request iff it has neither Origin nor Referer
\* outside production, or its Origin is allowed, or the origin derived from
\* its Referer is allowed; every other request is answered 403.
C13_OriginGate ==
    \A r \in PastLimiters :
        reqs[r].stage # "apikey" =>
            LET o == reqs[r].req.origin
                f == reqs[r].req.referer
                acceptable ==
                    \/ (~IsSome(o) /\ ~IsSome(f) /\ nodeEnv # "production")
                    \/ (IsSome(o) /\ Val(o) \in ALLOWED_ORIGINS)
                    \/ (/\ IsSome(f)
                        /\ IsSome(RefererOrigin(Val(f)))
                        /\ Val(RefererOrigin(Val(f))) \in ALLOWED_ORIGINS)
            IN  /\ reqs[r].stage # "origin" <=> acceptable
                /\ ~acceptable => Status(r) = 403

\* ------------------------------------------------------------------------
\* Verification: sign-ups to the waitlist, the days passing between requests,
\* and confirm requests with the mailed token or a guess, for either kind of
\* subject
\* ------------------------------------------------------------------------
WaitlistBody(name, email) == [name |-> Some(name), email |-> Some(email), interests |-> None]

VerifyInit ==
    /\ now = 0
    /\ nodeEnv = "development"
    /\ userRequestCounts = EmptyMap
    /\ ipRequestCounts = EmptyMap
    /\ storageKind \in {"mem", "db"}
    /\ users = IF storageKind = "db" THEN ProvisionedUsers ELSE << >>
    /\ waitlistEntries = EmptyMap
    /\ reqs = [r \in Slots |-> IdleSlot]
    /\ allowed = [l \in Limiters |-> EmptyMap]
    /\ made = [l \in Limiters |-> EmptyMap]

\* the tokens of the verification emails sent so far
MailedTokens ==
    {reqs[q].mail.token : q \in {q \in Slots : Answered(q) /\ HasField(reqs[q], "mail")}}

ConfirmQueries ==
    {[token |-> t, email |-> Some(UserA)] :
        t \in {None, Some("guess")} \cup {Some(m) : m \in MailedTokens}}

VerifyRoutes == {"verify_waitlist", "verify_registration"}

VerifyNext ==
    \/ /\ now < MaxTicks * DayMs
       /\ \A r \in Slots : SlotFree(r)
       /\ AdvanceTime(DayMs)
    \/ \E r \in Slots :
          /\ FreshSlot(r)
          /\ WaitlistReceive(r, Request("ip1", GoodKey, WaitlistBody(<<"A">>, UserA)))
    \/ \E r \in Slots : WaitlistLookup(r)
    \/ \E r \in Slots : WaitlistInsert(r)
    \/ \E r \in Slots, q \in ConfirmQueries :
          /\ FreshSlot(r)
          /\ VerifyReceive(r, "verify_waitlist", Request("ip1", NoHeaders, q))
    \/ \E r \in Slots :
          /\ FreshSlot(r)
          /\ VerifyReceive(r, "verify_registration",
                           Request("ip1", NoHeaders,
                                   [token |-> Some("guess"), email |-> Some(UserA)]))
    \/ \E r \in Slots : VerifyLookup(r)
    \/ \E r \in Slots : VerifyUpdate(r)

SpecVerify == VerifyInit /\ [][VerifyNext]_vars

VerificationFields(subject) ==
    <<subject.emailVerified, subject.emailVerificationToken,
      subject.emailVerificationExpires>>

\* what a confirm request that read its subject must have been answered:
\* q is the answered request with the subject it read (seen) and when (at)
ConfirmOutcome(q) ==
    LET pending == /\ IsSome(q.seen)
                   /\ IsSome(Val(q.seen).emailVerificationToken)
        match == /\ pending
                 /\ hashVerificationToken(Val(q.req.body.token))
                       = Val(Val(q.seen).emailVerificationToken)
        live == /\ match
                /\ IsSome(Val(q.seen).emailVerificationExpires)
                      => q.at <= Val(Val(q.seen).emailVerificationExpires)
    IN  /\ q.res.status = 200 <=> live
        /\ ~pending => q.res = Response(404, [message |-> "Invalid verification link"])
        /\ (pending /\ ~match)
              => q.res = Response(400, [message |-> "Invalid verification token"])
        /\ (match /\ ~live)
              => q.res = Response(400, [message |-> "Verification link has expired"])

\* the step answers the confirm request in slot r with 200
Confirms(r, route, email) ==
    /\ reqs[r].pc = "v_update"
    /\ reqs'[r].pc = "done"
    /\ reqs[r].route = route
    /\ Val(reqs[r].req.body.email) = email
    /\ reqs'[r].res.status = 200

\* C14: a confirm request verifies its subject iff the hash of the presented
\* token equals the stored hash and the stored expiry has not passed
\* (now <= expiry); otherwise emailVerified, token hash and expiry stay as
\* they are and the answer tells not-found (404), invalid token and expired
\* (400, different messages) apart.
C14_ConfirmTransitions ==
    [][ /\ \A r \in Slots :
              (/\ reqs[r].pc # "done"
               /\ reqs'[r].pc = "done"
               /\ reqs'[r].route \in VerifyRoutes
               /\ reqs'[r].stage = "handler")
                 => ConfirmOutcome(reqs'[r])
        /\ \A e \in DOMAIN waitlistEntries :
              VerificationFields(waitlistEntries'[e]) # VerificationFields(waitlistEntries[e])
                 => /\ \E r \in Slots : Confirms(r, "verify_waitlist", e)
                    /\ IsSome(waitlistEntries'[e].emailVerified)
        /\ \A i \in 1..Len(users) :
              VerificationFields(users'[i]) # VerificationFields(users[i])
                 => /\ \E r \in Slots : Confirms(r, "verify_registration", users[i].username)
                    /\ IsSome(users'[i].emailVerified) ]_vars

\* a confirm made at the very instant of the expiry, answered 200, and the
\* entry verified
C14_Witness ==
    \E r \in Slots :
        /\ Answered(r) /\ reqs[r].route = "verify_waitlist"
        /\ reqs[r].stage = "handler" /\ Status(r) = 200
        /\ reqs[r].at = Val(Val(reqs[r].seen).emailVerificationExpires)
        /\ IsSome(waitlistEntries[UserA].emailVerified)

\* C15: once a subject is verified nothing clears its emailVerified (neither a
\* confirm nor a repeated sign-up), and a confirm that arrives after the
\* verification, with the token that was valid or any other, is refused.
C15_VerifiedIsTerminal ==
    [][ /\ \A e \in DOMAIN waitlistEntries :
              IsSome(waitlistEntries[e].emailVerified)
                 => IsSome(waitlistEntries'[e].emailVerified)
        /\ \A i \in 1..Len(users) :
              IsSome(users[i].emailVerified) => IsSome(users'[i].emailVerified)
        /\ \A r \in Slots :
              (/\ reqs[r].pc # "done"
               /\ reqs'[r].pc = "done"
               /\ reqs'[r].route \in VerifyRoutes
               /\ reqs'[r].stage = "handler"
               /\ reqs'[r].verifiedBefore)
                 => reqs'[r].res.status # 200 ]_vars

\* the entry is verified; a second confirm with the mailed token and a second
\* sign-up for the email have been refused
C15_Witness ==
    /\ MapHas(waitlistEntries, UserA)
    /\ IsSome(waitlistEntries[UserA].emailVerified)
    /\ \E r \in Slots :
          /\ Answered(r) /\ reqs[r].route = "verify_waitlist"
          /\ reqs[r].stage = "handler"
          /\ reqs[r].verifiedBefore
          /\ Val(reqs[r].req.body.token) \in MailedTokens
          /\ Status(r) = 404

\* C16: after POST /api/waitlist answered 201 for an email with token t mailed,
\* the stored entry is unverified with the hash of t (not t) and the expiry 24
\* hours after the issue, until a confirm verifies it; whatever the storage.
C16_IssuedTokenIsStored ==
    \A r \in Slots :
        (Answered(r) /\ reqs[r].route = "waitlist" /\ HasField(reqs[r], "mail"))
          => LET e == reqs[r].mail.to
             IN  /\ MapHas(waitlistEntries, e)
                 /\ \/ IsSome(waitlistEntries[e].emailVerified)
                    \/ /\ waitlistEntries[e].emailVerificationToken
                             = Some(hashVerificationToken(reqs[r].mail.token))
                       /\ waitlistEntries[e].emailVerificationExpires
                             = reqs[r].entryData.emailVerificationExpires
                       /\ Val(reqs[r].entryData.emailVerificationExpires)
                             <= now + VerificationTtlMs


\* ------------------------------------------------------------------------
\* Token codec: jwtUtils applied to bounded claims while the clock advances
\* ------------------------------------------------------------------------
\* the claims that tokens are issued for
TokenClaims ==
    {[id |-> "uuid-1", username |-> UserA, role |-> "user"],
     [id |-> "uuid-2", username |-> AdminName, role |-> "admin"],
     [id |-> "uuid-3", username |-> ModName, role |-> "moderator"]}

\* clock steps around the two lifetimes, and the clock readings they lead to
TokenClockSteps == {DayMs - 1, DayMs + 1, 7 * DayMs + 1}

RECURSIVE TokenClock(_)
TokenClock(k) ==
    IF k = 0 THEN {0, 999}
    ELSE TokenClock(k - 1) \cup {t + d : t \in TokenClock(k - 1), d \in TokenClockSteps}

\* jwtUtils.generateToken(c) and jwtUtils.generateRefreshToken(c.id)
IssueTokens(r, c) ==
    /\ reqs' = [reqs EXCEPT ![r] =
                  [pc |-> "done", route |-> "issue", claims |-> c, at |-> now,
                   token |-> jwtUtils_generateToken(c, now),
                   refreshToken |-> jwtUtils_generateRefreshToken(c.id, now)]]
    /\ UNCHANGED <<now, nodeEnv, userRequestCounts, ipRequestCounts, storageKind,
                   users, waitlistEntries, allowed, made>>

\* jwtUtils.verifyToken(tok) for a token issued by slot i
VerifyIssued(r, i, kind) ==
    /\ reqs[i].pc = "done"
    /\ reqs[i].route = "issue"
    /\ LET tok == IF kind = "access" THEN reqs[i].token ELSE reqs[i].refreshToken
       IN reqs' = [reqs EXCEPT ![r] =
                     [pc |-> "done", route |-> "verify", kind |-> kind,
                      claims |-> reqs[i].claims, issuedAt |-> reqs[i].at,
                      token |-> tok, at |-> now,
                      decoded |-> jwtUtils_verifyToken(tok, now)]]
    /\ UNCHANGED <<now, nodeEnv, userRequestCounts, ipRequestCounts, storageKind,
                   users, waitlistEntries, allowed, made>>

TokensInit ==
    /\ Init
    /\ now \in TokenClock(0)
    /\ nodeEnv = "development"
    /\ storageKind = "mem"

TokensNext ==
    \/ \E d \in TokenClockSteps :
          /\ now \in TokenClock(MaxTicks - 1)
          /\ AdvanceTime(d)
    \/ \E r \in Slots, c \in TokenClaims :
          /\ FreshSlot(r)
          /\ IssueTokens(r, c)
    \/ \E r \in Slots, i \in Slots, kind \in {"access", "refresh"} :
          /\ FreshSlot(r)
          /\ VerifyIssued(r, i, kind)

SpecTokens == TokensInit /\ [][TokensNext]_vars

Verifications(kind) ==
    {r \in Slots : reqs[r].pc = "done" /\ reqs[r].route = "verify" /\ reqs[r].kind = kind}

\* C17: an access token verified at the moment it was issued for claims c
\* decodes to the id, username and role of c; an access token verified later
\* than its issuance plus JWT_EXPIRES_IN (24 h) is refused, and a refresh
\* token verified later than its issuance plus 7 days is refused.
C17_TokenLifetime ==
    /\ \A r \in Verifications("access") :
          /\ reqs[r].at = reqs[r].issuedAt =>
                /\ IsSome(reqs[r].decoded)
                /\ Val(reqs[r].decoded).id = reqs[r].claims.id
                /\ Val(reqs[r].decoded).username = Some(reqs[r].claims.username)
                /\ Val(reqs[r].decoded).role = Some(reqs[r].claims.role)
          /\ reqs[r].at - reqs[r].issuedAt > JWT_EXPIRES_IN * 1000 =>
                reqs[r].decoded = None
    /\ \A r \in Verifications("refresh") :
          reqs[r].at - reqs[r].issuedAt > RefreshExpiresIn * 1000 =>
             reqs[r].decoded = None

\* an administrator's access token decoded at issuance, and a refresh token
\* refused one millisecond past its seven days
C17_Witness ==
    /\ \E r \in Verifications("access") :
          /\ reqs[r].at = reqs[r].issuedAt
          /\ reqs[r].claims.role = "admin"
          /\ IsSome(reqs[r].decoded)
    /\ \E r \in Verifications("refresh") :
          /\ reqs[r].at - reqs[r].issuedAt = RefreshExpiresIn * 1000 + 1
          /\ reqs[r].decoded = None


\* ------------------------------------------------------------------------
\* Username normalization across register and login
\* ------------------------------------------------------------------------
\* the register requests answered 201
Registered == {q \in Slots : /\ reqs[q].pc = "done"
                             /\ reqs[q].route = "register"
                             /\ reqs[q].stage = "handler"
                             /\ reqs[q].res.status = 201}

\* slot r takes a login request for username u with password p in this step
LoginArrives(r, u, p) ==
    /\ reqs[r].pc = "idle"
    /\ reqs'[r].pc = "done"
    /\ reqs'[r].route = "login"
    /\ reqs'[r].stage = "handler"
    /\ normalizeUsername(reqs'[r].req.body.username, reqs'[r].req.body.email) = u
    /\ reqs'[r].req.body.password = p

\* the register request in slot r for username u reads the store in this step
RegisterLooksUp(r, u) ==
    /\ reqs[r].pc = "lookup"
    /\ reqs[r].route = "register"
    /\ reqs[r].username = u
    /\ reqs'[r].pc # "lookup"

\* C18: once a register request for u (any letter case, surrounding white
\* space) and p is answered 201, the username returned and stored is
\* trim(lowercase(u)); every login that arrives afterwards with a variant of u
\* and p is answered 200 with the id that register returned, and every
\* register for a variant of u that reads the store afterwards is answered
\* 409 "User already exists" and leaves the users as they are.
C18_NormalizedIdentity ==
    [][\A q \in Registered :
          LET u == trim(toLowerCase(Val(reqs[q].req.body.username)))
              id == reqs[q].res.body.user.id
          IN  /\ reqs[q].res.body.user.username = u
              /\ \E i \in 1..Len(users) : users[i].id = id /\ users[i].username = u
              /\ \A r \in Slots :
                    LoginArrives(r, u, reqs[q].req.body.password) =>
                       /\ reqs'[r].res.status = 200
                       /\ reqs'[r].res.body.user.id = id
              /\ \A r \in Slots :
                    RegisterLooksUp(r, u) =>
                       /\ reqs'[r].pc = "done"
                       /\ reqs'[r].res = Response(409, [message |-> "User already exists"])
                       /\ users' = users]_vars


\* ------------------------------------------------------------------------
\* Register validation: bodies on both sides of insertUserSchema
\* ------------------------------------------------------------------------
LongPasswordLength == 1000
LongPassword == [i \in 1..LongPasswordLength |-> "a"]
Short == <<"1", "2", "3", "4", "5">>
Blank == <<" ", " ">>
NoDomain == <<"a", "@", "b">>

ValidationBodies ==
    {[username |-> None, email |-> None, password |-> Some(JsonString(Secret))],
     RegisterBody(Blank, JsonString(Secret)),
     RegisterBody(NoDomain, JsonString(Secret)),
     [username |-> Some(UserAVariant), email |-> None, password |-> None],
     RegisterBody(UserAVariant, JsonString(Short)),
     RegisterBody(UserAVariant, JsonString(Secret)),
     [username |-> None, email |-> Some(UserB), password |-> Some(JsonString(LongPassword))]}

ValidationInit ==
    /\ Init
    /\ nodeEnv = "development"

ValidationNext ==
    \/ \E r \in Slots, b \in ValidationBodies :
          /\ FreshSlot(r)
          /\ RegisterReceive(r, Request("ip1", GoodKey, b))
    \/ \E r \in Slots : RegisterLookup(r)
    \/ \E r \in Slots, salt \in Salts : RegisterHash(r, salt)
    \/ \E r \in Slots : RegisterInsert(r)

SpecValidation == ValidationInit /\ [][ValidationNext]_vars

\* slot r takes a register request in this step, and the request passes the
\* limiters, the API key and the origin check
RegisterArrives(r) ==
    /\ reqs[r].pc = "idle"
    /\ reqs'[r].pc # "idle"
    /\ reqs'[r].route = "register"
    /\ reqs'[r].stage \in {"validation", "handler"}

\* the register bodies that the validation refuses
InvalidRegisterBody(body) ==
    LET u == normalizeUsername(body.username, body.email)
    IN  \/ u = Str0
        \/ ~emailRegex(u)
        \/ ~IsSome(body.password)
        \/ Len(Val(body.password).chars) < MinPasswordLength

LongPasswordB == [i \in 1..LongPasswordLength |-> IF i = LongPasswordLength THEN "b" ELSE "a"]

HashedPasswords == {Secret, Wrong, LongPassword, LongPasswordB}

\* passwordUtils.hash(p)
HashPassword(r, p, salt) ==
    /\ reqs' = [reqs EXCEPT ![r] =
                  [pc |-> "done", route |-> "hash", password |-> p,
                   hash |-> passwordUtils_hash(p, salt)]]
    /\ UNCHANGED <<now, nodeEnv, userRequestCounts, ipRequestCounts, storageKind,
                   users, waitlistEntries, allowed, made>>

\* passwordUtils.verify(p, hash) for a hash made in slot i
VerifyPassword(r, i, p) ==
    /\ reqs[i].pc = "done"
    /\ reqs[i].route = "hash"
    /\ reqs' = [reqs EXCEPT ![r] =
                  [pc |-> "done", route |-> "compare", password |-> p,
                   hashed |-> reqs[i].password,
                   result |-> passwordUtils_verify(JsonString(p), reqs[i].hash)]]
    /\ UNCHANGED <<now, nodeEnv, userRequestCounts, ipRequestCounts, storageKind,
                   users, waitlistEntries, allowed, made>>

PasswordsInit ==
    /\ Init
    /\ nodeEnv = "development"
    /\ storageKind = "mem"

PasswordsNext ==
    \/ \E r \in Slots, p \in HashedPasswords, salt \in Salts :
          /\ FreshSlot(r)
          /\ HashPassword(r, p, salt)
    \/ \E r \in Slots, i \in Slots, p \in HashedPasswords :
          /\ FreshSlot(r)
          /\ VerifyPassword(r, i, p)

SpecPasswords == PasswordsInit /\ [][PasswordsNext]_vars

\* C20: verify(p1, hash(p2)) is true when p1 = p2 and false when p1 # p2,
\* also for 1000-character passwords that differ in their last character.
C20_VerifyIffSamePassword ==
    \A r \in Slots :
       (reqs[r].pc = "done" /\ reqs[r].route = "compare") =>
          /\ ~reqs[r].result.threw
          /\ reqs[r].result.ok <=> (reqs[r].password = reqs[r].hashed)


\* ------------------------------------------------------------------------
\* Waitlist signups with the same address in two letter cases
\* ------------------------------------------------------------------------
UserAUpper == <<"A", "@", "b", ".", "c">>

SignupInit ==
    /\ Init
    /\ nodeEnv = "development"

SignupNext ==
    \/ \E r \in Slots, e \in {UserA, UserAUpper} :
          /\ FreshSlot(r)
          /\ WaitlistReceive(r, Request("ip1", GoodKey, WaitlistBody(<<"A">>, e)))
    \/ \E r \in Slots : WaitlistLookup(r)
    \/ \E r \in Slots : WaitlistInsert(r)

SpecSignup == SignupInit /\ [][SignupNext]_vars

\* the stored entries whose email is e up to letter case and surrounding
\* white space
SameAddress(store, e) ==
    {k \in DOMAIN store : toLowerCase(trim(k)) = toLowerCase(trim(e))}

\* C21: the emails of the waitlist entries are pairwise different after
\* trimming and lowercasing, and a signup that is answered while an entry
\* with its email (up to case and white space) exists is answered 409
\* "Email already registered" and leaves the waitlist as it is.
C21_WaitlistEmailUnique ==
    [][ /\ \A k \in DOMAIN waitlistEntries' : SameAddress(waitlistEntries', k) = {k}
        /\ \A r \in Slots :
              (/\ reqs[r].pc \in {"wl_lookup", "wl_insert"}
               /\ reqs'[r].pc = "done"
               /\ SameAddress(waitlistEntries, Val(reqs[r].req.body.email)) # {})
                 => /\ reqs'[r].res = Response(409, [message |-> "Email already registered"])
                    /\ waitlistEntries' = waitlistEntries ]_vars


\* ------------------------------------------------------------------------
\* The notification emails of register and waitlist signup
\* ------------------------------------------------------------------------
\* how the promise of emailService.send... settles: sendEmail resolved true,
\* resolved false (the transport failed), or the promise rejected
NotifierOutcomes == {"sent", "failed", "raised"}

\* a handler that waits for the email and forwards its rejection
emailCatch_forwarded(res, outcome) ==
    IF outcome = "raised" THEN InternalError ELSE res

\* .catch(error => console.error(...)) on a promise nobody awaits: the answer,
\* sent before the promise settles, stays as it is
emailCatch(res, outcome) ==
    res

\* the requests whose handler started an email: those answered 201
EmailStarted(r) ==
    /\ reqs[r].pc = "done"
    /\ reqs[r].route \in {"register", "waitlist"}
    /\ reqs[r].stage = "handler"
    /\ reqs[r].res.status = 201

\* the email promise of the request in slot r settles
EmailSettles(r, outcome) ==
    /\ EmailStarted(r)
    /\ ~HasField(reqs[r], "notifier")
    /\ reqs' = [reqs EXCEPT ![r] =
                  [reqs[r] EXCEPT !.res = emailCatch(reqs[r].res, outcome)]
                     @@ [notifier |-> outcome]]
    /\ UNCHANGED <<now, nodeEnv, userRequestCounts, ipRequestCounts, storageKind,
                   users, waitlistEntries, allowed, made>>

NotifyInit ==
    /\ Init
    /\ nodeEnv = "development"

NotifyNext ==
    \/ \E r \in Slots :
          /\ FreshSlot(r)
          /\ RegisterReceive(r, Request("ip1", GoodKey, RegisterBody(UserA, JsonString(Secret))))
    \/ \E r \in Slots : RegisterLookup(r)
    \/ \E r \in Slots : RegisterHash(r, "salt1")
    \/ \E r \in Slots : RegisterInsert(r)
    \/ \E r \in Slots :
          /\ FreshSlot(r)
          /\ WaitlistReceive(r, Request("ip1", GoodKey, WaitlistBody(<<"A">>, UserA)))
    \/ \E r \in Slots : WaitlistLookup(r)
    \/ \E r \in Slots : WaitlistInsert(r)
    \/ \E r \in Slots, o \in NotifierOutcomes : EmailSettles(r, o)

SpecNotify == NotifyInit /\ [][NotifyNext]_vars

\* C22: whichever way the notification email of a register or waitlist
\* request answered 201 settles (sent, reported failure, raised error), the
\* answer stays 201 and the users and the waitlist stay as they are.
C22_NotifierNeverChangesOutcome ==
    [][\A r \in Slots :
          (EmailStarted(r) /\ ~HasField(reqs[r], "notifier") /\ HasField(reqs'[r], "notifier"))
             => /\ reqs'[r].res = reqs[r].res
                /\ reqs'[r].res.status = 201
                /\ users' = users
                /\ waitlistEntries' = waitlistEntries]_vars

\* a registration whose welcome email raised and a signup whose verification
\* email failed, both answered 201 with their records stored
C22_Witness ==
    /\ \E r \in Slots :
          /\ EmailStarted(r)
          /\ reqs[r].route = "register"
          /\ HasField(reqs[r], "notifier")
          /\ reqs[r].notifier = "raised"
          /\ \E i \in 1..Len(users) : users[i].id = reqs[r].res.body.user.id
    /\ \E r \in Slots :
          /\ EmailStarted(r)
          /\ reqs[r].route = "waitlist"
          /\ HasField(reqs[r], "notifier")
          /\ reqs[r].notifier = "failed"
          /\ MapHas(waitlistEntries, reqs[r].res.body.email)


\* the confirm requests answered 200 for the waitlist entry of email with token
ConfirmedWith(email, token) ==
    {r \in Slots : /\ reqs[r].pc = "done"
                   /\ reqs[r].route = "verify_waitlist"
                   /\ reqs[r].stage = "handler"
                   /\ reqs[r].req.body = [token |-> Some(token), email |-> Some(email)]
                   /\ reqs[r].res.status = 200}

\* C23: of the confirm requests that carry the same valid token for the same
\* entry, however their read and update steps interleave, at most one is
\* answered 200.
C23_TokenConsumedOnce ==
    \A token \in MailedTokens : Cardinality(ConfirmedWith(UserA, token)) <= 1


\* ------------------------------------------------------------------------
\* Token hashes: verifyTokenHash applied to stored values of any length
\* ------------------------------------------------------------------------
ComparedTokens == {"token-1", "token-2"}

\* what the token column may hold: a digest, or text that is none (empty,
\* cut short, or of the length of a digest)
StoredValues ==
    {hashVerificationToken(t) : t \in ComparedTokens}
       \cup {[text |-> Str0], [text |-> <<"a", "b", "c">>],
             [text |-> [i \in 1..DigestHexLength |-> "0"]]}

\* verifyTokenHash(token, stored)
CompareToken(r, token, stored) ==
    /\ reqs' = [reqs EXCEPT ![r] =
                  [pc |-> "done", route |-> "verifyTokenHash", token |-> token,
                   stored |-> stored, result |-> verifyTokenHash(token, stored)]]
    /\ UNCHANGED <<now, nodeEnv, userRequestCounts, ipRequestCounts, storageKind,
                   users, waitlistEntries, allowed, made>>

TokenHashInit ==
    /\ Init
    /\ nodeEnv = "development"
    /\ storageKind = "db"

TokenHashNext ==
    \E r \in Slots, token \in ComparedTokens, stored \in StoredValues :
       /\ FreshSlot(r)
       /\ CompareToken(r, token, stored)

SpecTokenHash == TokenHashInit /\ [][TokenHashNext]_vars

\* C24: verifyTokenHash never raises, and answers true exactly when the
\* stored value is the hash of the token: false for every other stored
\* value, of whatever length.
C24_VerifyTokenHashTotal ==
    \A r \in Slots :
       (reqs[r].pc = "done" /\ reqs[r].route = "verifyTokenHash") =>
          /\ ~reqs[r].result.threw
          /\ reqs[r].result.ok <=>
                (IsDigest(reqs[r].stored) /\ reqs[r].stored = hashVerificationToken(reqs[r].token))


\* ------------------------------------------------------------------------
\* The two limiters applied with a small ceiling and window at any times
\* ------------------------------------------------------------------------
WindowCeiling == 1
WindowMs == 2
\* the clock runs for two windows and a millisecond
WindowHorizon == 2 * WindowMs + 1

\* one request reaching the limiter which ("general": rateLimitByUser,
\* "strict": strictRateLimitByIP) from ip
LimiterCall(r, which, ip) ==
    LET out == IF which = "general"
               THEN rateLimitByUser(WindowCeiling, WindowMs, None, ip, now, userRequestCounts)
               ELSE strictRateLimitByIP(WindowCeiling, WindowMs, ip, now, ipRequestCounts)
    IN  /\ IF which = "general"
           THEN /\ userRequestCounts' = out.counts
                /\ ipRequestCounts' = ipRequestCounts
           ELSE /\ ipRequestCounts' = out.counts
                /\ userRequestCounts' = userRequestCounts
        /\ reqs' = [reqs EXCEPT ![r] =
                      [pc |-> "done", route |-> which, key |-> out.key, at |-> now,
                       next |-> out.next, reset |-> out.reset]]
        /\ UNCHANGED <<now, nodeEnv, storageKind, users, waitlistEntries, allowed, made>>

WindowInit ==
    /\ Init
    /\ nodeEnv = "development"
    /\ storageKind = "mem"

WindowNext ==
    \/ /\ now < WindowHorizon
       /\ AdvanceTime(1)
    \/ \E r \in Slots, which \in {"general", "strict"}, ip \in IPs :
          /\ FreshSlot(r)
          /\ LimiterCall(r, which, ip)

SpecWindow == WindowInit /\ [][WindowNext]_vars

\* the requests of key that limiter which let through at a time in [s, s + d]
AllowedIn(which, key, s, d) ==
    {r \in Slots : /\ reqs[r].pc = "done"
                   /\ reqs[r].route = which
                   /\ reqs[r].key = key
                   /\ reqs[r].next
                   /\ s <= reqs[r].at
                   /\ reqs[r].at <= s + d}

refreshHandler(user, t) ==
    LET claims == [id       |-> user.id,
                   username |-> IF IsSome(user.username) THEN Val(user.username) ELSE Str0,
                   role     |-> IF IsSome(user.role) THEN Val(user.role) ELSE ""]
        signed == jwtUtils_generateToken(claims, t)
    IN  Response(200,
           [token        |-> [signed EXCEPT !.payload.username = user.username],
            refreshToken |-> jwtUtils_generateRefreshToken(user.id, t),
            user         |-> user])

RefreshRequest(r, req) ==
    LET g == ApiPrefix(req, None)
        chain == [general |-> Some(g), strict |-> None]
        a == authenticate(req, now)
    IN  /\ SlotFree(r)
        /\ ApplyLimiters("refresh", chain)
        /\ reqs' = [reqs EXCEPT ![r] =
             IF ~g.next
             THEN Done(req, "refresh", chain, "general", Val(g.res))
                     @@ [at |-> now, user |-> None]
             ELSE IF ~a.next
             THEN Done(req, "refresh", chain, "auth", Val(a.res))
                     @@ [at |-> now, user |-> None]
             ELSE Done(req, "refresh", chain, "handler", refreshHandler(Val(a.user), now))
                     @@ [at |-> now, user |-> a.user]]
        /\ UNCHANGED <<now, nodeEnv, storageKind, waitlistEntries, users>>

\* Sessions: the administrator and a user log in, present the tokens they
\* were given to the protected endpoints, and the administrator's role is
\* changed
DemoteBody == [userId |-> "uuid-1", role |-> Some("user")]

\* the tokens of the login and refresh responses
SessionTokens ==
    UNION {{reqs[q].res.body.token, reqs[q].res.body.refreshToken} :
              q \in {q \in Slots : /\ Answered(q)
                                   /\ reqs[q].route \in {"login", "refresh"}
                                   /\ Status(q) = 200}}

SessionHeaders == {Bearer(tok) : tok \in SessionTokens}

SessionNext ==
    \/ \E r \in Slots, u \in {AdminName, UserA} :
          /\ FreshSlot(r)
          /\ Login(r, Request("ip1", NoHeaders, RegisterBody(u, JsonString(Secret))))
    \/ \E r \in Slots, h \in SessionHeaders :
          /\ FreshSlot(r)
          /\ RefreshRequest(r, AdminRequest(h, [x \in {} |-> 0]))
    \/ \E r \in Slots, h \in SessionHeaders :
          /\ FreshSlot(r)
          /\ MeRequest(r, AdminRequest(h, [x \in {} |-> 0]))
    \/ \E r \in Slots, h \in SessionHeaders :
          /\ FreshSlot(r)
          /\ AdminUpdateRole(r, AdminRequest(h, DemoteBody))
    \/ \E r \in Slots, h \in SessionHeaders :
          /\ FreshSlot(r)
          /\ AdminListUsers(r, AdminRequest(h, [x \in {} |-> 0]))

SpecSession == AdminInit /\ [][SessionNext]_vars

ProtectedRoutes == {"me", "refresh", "admin_users", "admin_role", "admin_waitlist"}

\* C26: a request to a protected endpoint whose bearer token is a refresh
\* token (payload type 'refresh') is answered 401, and no access token is
\* issued for it.
C26_RefreshTokenRejected ==
    \A r \in Slots :
       (/\ reqs[r].pc = "done"
        /\ reqs[r].route \in ProtectedRoutes
        /\ reqs[r].stage # "general"
        /\ TokenOf(r).payload.type = Some("refresh"))
          => /\ reqs[r].res.status = 401
             /\ reqs[r].stage = "auth"

\* the stored role of the identity id
StoredRole(store, id) ==
    {store[i].role : i \in {i \in 1..Len(store) : store[i].id = id}}

\* the identities whose role an answered role update has changed
RoleChanged ==
    {reqs[q].req.body.userId :
        q \in {q \in Slots : /\ reqs[q].pc = "done"
                             /\ reqs[q].route = "admin_role"
                             /\ reqs[q].res.status = 200}}

\* C27: once the role of an identity was changed through the role-update
\* endpoint, every access token that login or /api/refresh issues for the
\* identity carries the role that is stored for it.
C27_IssuedTokenCarriesStoredRole ==
    [][\A r \in Slots :
          (/\ reqs[r].pc = "idle"
           /\ reqs'[r].pc = "done"
           /\ reqs'[r].route \in {"login", "refresh"}
           /\ reqs'[r].res.status = 200
           /\ reqs'[r].res.body.token.payload.id \in RoleChanged)
             => reqs'[r].res.body.token.payload.role
                   \in {Some(ro) : ro \in StoredRole(users, reqs'[r].res.body.token.payload.id)}]_vars


\* ------------------------------------------------------------------------
\* PUT /api/me: the password change
\* ------------------------------------------------------------------------
\* authenticate and the handler up to storage.getUserByUsername
ProfileReceive(r, req) ==
    LET g == ApiPrefix(req, None)
        chain == [general |-> Some(g), strict |-> None]
        a == authenticate(req, now)
        changing == IsSome(req.body.newPassword) /\ Truthy(Val(req.body.newPassword))
        current == IsSome(req.body.currentPassword) /\ Truthy(Val(req.body.currentPassword))
    IN  /\ SlotFree(r)
        /\ ApplyLimiters("profile", chain)
        /\ reqs' = [reqs EXCEPT ![r] =
             IF ~g.next
             THEN Done(req, "profile", chain, "general", Val(g.res)) @@ [user |-> None]
             ELSE IF ~a.next
             THEN Done(req, "profile", chain, "auth", Val(a.res)) @@ [user |-> None]
             ELSE IF changing /\ ~current
             THEN Done(req, "profile", chain, "validation",
                       Response(400, [message |-> "Current password required to change password"]))
                     @@ [user |-> a.user]
             ELSE [pc |-> "pw_lookup", route |-> "profile", req |-> req,
                   stage |-> "handler", limits |-> Verdicts(chain), user |-> a.user,
                   changing |-> changing]]
        /\ UNCHANGED <<now, nodeEnv, storageKind, waitlistEntries, users>>

\* const user = await storage.getUserByUsername(req.user.username)
ProfileLookup(r) ==
    LET found == IF IsSome(Val(reqs[r].user).username)
                 THEN getUserByUsername(users, Val(Val(reqs[r].user).username))
                 ELSE None
    IN  /\ reqs[r].pc = "pw_lookup"
        /\ reqs' = [reqs EXCEPT ![r] =
             IF ~IsSome(found)
             THEN [reqs[r] EXCEPT !.pc = "done"]
                     @@ [res |-> Response(404, [message |-> "User not found"])]
             ELSE IF ~reqs[r].changing
             THEN [reqs[r] EXCEPT !.pc = "done"]
                     @@ [res |-> Response(200, [message |-> "Profile updated successfully"])]
             ELSE [reqs[r] EXCEPT !.pc = "pw_verify"] @@ [found |-> Val(found)]]
        /\ UNCHANGED <<now, nodeEnv, userRequestCounts, ipRequestCounts, storageKind,
                       waitlistEntries, users, allowed, made>>

\* await passwordUtils.verify(currentPassword, user.password), on the user
\* that was read
ProfileVerify(r) ==
    LET checked == passwordUtils_verify(Val(reqs[r].req.body.currentPassword),
                                        reqs[r].found.password)
    IN  /\ reqs[r].pc = "pw_verify"
        /\ reqs' = [reqs EXCEPT ![r] =
             IF checked.threw
             THEN [reqs[r] EXCEPT !.pc = "done"] @@ [res |-> InternalError]
             ELSE IF ~checked.ok
             THEN [reqs[r] EXCEPT !.pc = "done"]
                     @@ [res |-> Response(401, [message |-> "Current password is incorrect"])]
             ELSE [reqs[r] EXCEPT !.pc = "pw_hash"]]
        /\ UNCHANGED <<now, nodeEnv, userRequestCounts, ipRequestCounts, storageKind,
                       waitlistEntries, users, allowed, made>>

\* const hashedPassword = await passwordUtils.hash(newPassword): bcryptjs
\* rejects a password that is no string
ProfileHash(r, salt) ==
    LET newPassword == Val(reqs[r].req.body.newPassword)
    IN  /\ reqs[r].pc = "pw_hash"
        /\ reqs' = [reqs EXCEPT ![r] =
             IF newPassword.type # "string"
             THEN [reqs[r] EXCEPT !.pc = "done"] @@ [res |-> InternalError]
             ELSE [reqs[r] EXCEPT !.pc = "pw_update"]
                     @@ [hashedPassword |-> passwordUtils_hash(newPassword.chars, salt)]]
        /\ UNCHANGED <<now, nodeEnv, userRequestCounts, ipRequestCounts, storageKind,
                       waitlistEntries, users, allowed, made>>

\* storage.updateUser(userId, { password })
updateUserPassword(store, userId, password) ==
    [i \in 1..Len(store) |->
        IF store[i].id = userId THEN [store[i] EXCEPT !.password = password] ELSE store[i]]

\* await storage.updateUser(user.id, { password: hashedPassword }) and the answer
ProfileUpdate(r) ==
    /\ reqs[r].pc = "pw_update"
    /\ users' = updateUserPassword(users, reqs[r].found.id, reqs[r].hashedPassword)
    /\ reqs' = [reqs EXCEPT ![r] =
         [reqs[r] EXCEPT !.pc = "done"]
            @@ [res |-> Response(200, [message |-> "Profile updated successfully"])]]
    /\ UNCHANGED <<now, nodeEnv, userRequestCounts, ipRequestCounts, storageKind,
                   waitlistEntries, allowed, made>>

\* the user a@b.c logs in with the first or the second password and changes
\* the password, in either direction
PasswordChanges ==
    {[currentPassword |-> c, newPassword |-> n] :
        c \in {None, Some(JsonString(Secret)), Some(JsonString(Wrong))},
        n \in {Some(JsonString(Secret)), Some(JsonString(Wrong))}}

ProfileNext ==
    \/ \E r \in Slots, p \in {Secret, Wrong} :
          /\ FreshSlot(r)
          /\ Login(r, Request("ip1", NoHeaders, RegisterBody(UserA, JsonString(p))))
    \/ \E r \in Slots, h \in SessionHeaders, b \in PasswordChanges :
          /\ FreshSlot(r)
          /\ ProfileReceive(r, AdminRequest(h, b))
    \/ \E r \in Slots : ProfileLookup(r)
    \/ \E r \in Slots : ProfileVerify(r)
    \/ \E r \in Slots : ProfileHash(r, "salt1")
    \/ \E r \in Slots : ProfileUpdate(r)

SpecProfile == AdminInit /\ [][ProfileNext]_vars

\* the password change in slot r replaces the stored hash in this step
ReplacesHash(r) ==
    /\ reqs[r].pc = "pw_update"
    /\ reqs'[r].pc = "done"

\* the answered password changes of identity id whose hash is the stored one
LastChange(id) ==
    {q \in Slots : /\ reqs[q].pc = "done"
                   /\ reqs[q].route = "profile"
                   /\ HasField(reqs[q], "hashedPassword")
                   /\ reqs[q].res.status = 200
                   /\ reqs[q].found.id = id
                   /\ \E i \in 1..Len(users) :
                         users[i].id = id /\ users[i].password = reqs[q].hashedPassword}

\* C28 (replacement): the stored hash of a user changes only in the update
\* step of a password change whose currentPassword verifies against the hash
\* stored at that moment, and never in a step that answers a request with
\* anything but 200.
C28_ChangeNeedsCurrentPassword ==
    [][ /\ \A i \in 1..Len(users) :
              users'[i].password # users[i].password
                 => \E r \in Slots :
                       /\ ReplacesHash(r)
                       /\ reqs[r].found.id = users[i].id
                       /\ passwordUtils_verify(Val(reqs[r].req.body.currentPassword),
                                               users[i].password).ok
        /\ \A r \in Slots :
              (/\ reqs[r].pc # "done"
               /\ reqs'[r].pc = "done"
               /\ reqs'[r].route = "profile"
               /\ reqs'[r].res.status # 200)
                 => users' = users
        /\ \A r \in Slots, q \in LastChange("uuid-3") :
              (/\ reqs[r].pc = "idle"
               /\ reqs'[r].pc = "done"
               /\ reqs'[r].route = "login"
               /\ reqs[q].req.body.newPassword # reqs[q].req.body.currentPassword)
                 => /\ reqs'[r].req.body.password = reqs[q].req.body.currentPassword
                          => reqs'[r].res.status = 401
                    /\ reqs'[r].req.body.password = reqs[q].req.body.newPassword
                          => reqs'[r].res.status = 200 ]_vars

\* ------------------------------------------------------------------------
\* StorageProxy (storage.ts:266-349): the constructor starts initializeAsync,
\* every operation awaits ensureInitialized and then calls the same operation
\* of this.storageImpl.  Slot 1 is the initializeAsync call of the constructor,
\* the other slots are calls of proxy operations.  storageKind is
\* this.storageImpl: "placeholder" is the MemStorage of the field initializer.
\* ------------------------------------------------------------------------
InitSlot == 1
ProxyCalls == Slots \ {InitSlot}
ProxyOperations == {"getUser", "createUser"}
ConnectOutcomes == {"connected", "refused"}

\* the polls of one call that the model tells apart
MaxPolls == 1

\* initializeStorage: no DATABASE_URL gives a MemStorage, a connection that
\* passes its test a DbStorage, and a failed test rethrows
initializeStorage(url, outcome) ==
    IF url = None THEN [threw |-> FALSE, impl |-> "mem"]
    ELSE IF outcome = "connected" THEN [threw |-> FALSE, impl |-> "db"]
    ELSE [threw |-> TRUE, impl |-> "none"]

proxyInitialized == reqs[InitSlot].initialized

\* the condition that ends the loop of ensureInitialized
ensureInitialized_noWait(initialized) == TRUE
ensureInitialized(initialized) ==
    initialized

ProxyInit ==
    /\ now = 0
    /\ nodeEnv \in {"development", "production"}
    /\ userRequestCounts = EmptyMap
    /\ ipRequestCounts = EmptyMap
    /\ storageKind = "placeholder"
    /\ users = << >>
    /\ waitlistEntries = EmptyMap
    /\ \E url \in {None, Some("postgres://db")} :
          reqs = [r \in Slots |->
                    IF r = InitSlot
                    THEN [pc |-> "initializing", route |-> "initializeAsync",
                          url |-> url, initialized |-> FALSE]
                    ELSE IdleSlot]
    /\ allowed = [l \in Limiters |-> EmptyMap]
    /\ made = [l \in Limiters |-> EmptyMap]

\* initializeAsync resumes after its await: the promise of initializeStorage
\* has settled (pool.connect resolves or rejects within connectionTimeoutMillis)
InitializeSettles ==
    /\ reqs[InitSlot].pc = "initializing"
    /\ \E outcome \in ConnectOutcomes :
          LET out == initializeStorage(reqs[InitSlot].url, outcome) IN
            /\ storageKind' = IF out.threw THEN "mem" ELSE out.impl
            /\ reqs' = [reqs EXCEPT ![InitSlot] =
                          [@ EXCEPT !.pc = "done", !.initialized = TRUE]
                            @@ [outcome |-> IF reqs[InitSlot].url = None
                                            THEN "none" ELSE outcome]]
    /\ UNCHANGED <<now, nodeEnv, userRequestCounts, ipRequestCounts, users,
                   waitlistEntries, allowed, made>>

\* a proxy operation is called: ensureInitialized tests the flag at once and
\* either returns or sets its first timer
ProxyCall(r, op) ==
    /\ reqs[r].pc = "idle"
    /\ reqs' = [reqs EXCEPT ![r] =
                  [pc |-> IF ensureInitialized(proxyInitialized)
                          THEN "resume" ELSE "sleeping",
                   route |-> op, polls |-> 0, forwards |-> 0,
                   calledBeforeInit |-> ~proxyInitialized, impl |-> "none"]]
    /\ UNCHANGED <<now, nodeEnv, userRequestCounts, ipRequestCounts, storageKind,
                   users, waitlistEntries, allowed, made>>

\* the 10 ms timer of ensureInitialized fires and the loop tests the flag again
ProxyTimer(r) ==
    /\ reqs[r].pc = "sleeping"
    /\ reqs' = [reqs EXCEPT ![r] =
                  IF ensureInitialized(proxyInitialized)
                  THEN [@ EXCEPT !.pc = "resume"]
                  ELSE [@ EXCEPT !.polls = Min(@ + 1, MaxPolls)]]
    /\ UNCHANGED <<now, nodeEnv, userRequestCounts, ipRequestCounts, storageKind,
                   users, waitlistEntries, allowed, made>>

\* the operation resumes after await ensureInitialized() and calls the same
\* operation of this.storageImpl
ProxyForward(r) ==
    /\ reqs[r].pc = "resume"
    /\ reqs' = [reqs EXCEPT ![r] =
                  [@ EXCEPT !.pc = "forwarded", !.forwards = @ + 1,
                            !.impl = storageKind]
                    @@ [initializedAtForward |-> proxyInitialized]]
    /\ UNCHANGED <<now, nodeEnv, userRequestCounts, ipRequestCounts, storageKind,
                   users, waitlistEntries, allowed, made>>

ProxyNext ==
    \/ InitializeSettles
    \/ \E r \in ProxyCalls : \E op \in ProxyOperations : ProxyCall(r, op)
    \/ \E r \in ProxyCalls : ProxyTimer(r)
    \/ \E r \in ProxyCalls : ProxyForward(r)

\* pool.connect settles within its connection timeout, timers fire and
\* continuations run: the event loop leaves none of them waiting for ever
SpecProxy ==
    /\ ProxyInit
    /\ [][ProxyNext]_vars
    /\ WF_vars(InitializeSettles)
    /\ \A r \in ProxyCalls : WF_vars(ProxyTimer(r)) /\ WF_vars(ProxyForward(r))

ProxyCalled(r) == reqs[r].pc \in {"sleeping", "resume", "forwarded"}

\* C29: every proxy operation is forwarded exactly once and only after
\* initialization has completed; initialization always completes, with the
\* database storage when the connection succeeded and with an in-memory
\* storage when it failed (or when no database is configured); the chosen
\* implementation never changes afterwards; every call, also one issued
\* before initialization finished, is eventually forwarded to that one
\* implementation.
C29_ProxyForwardsOnceAfterInit ==
    /\ [](\A r \in ProxyCalls :
            ProxyCalled(r) =>
              /\ reqs[r].forwards = IF reqs[r].pc = "forwarded" THEN 1 ELSE 0
              /\ reqs[r].pc = "forwarded" =>
                    /\ reqs[r].initializedAtForward
                    /\ proxyInitialized
                    /\ reqs[r].impl = storageKind)
    /\ <>proxyInitialized
    /\ [](proxyInitialized =>
            storageKind = IF reqs[InitSlot].outcome = "connected"
                          THEN "db" ELSE "mem")
    /\ [][proxyInitialized => proxyInitialized' /\ storageKind' = storageKind]_vars
    /\ \A r \in ProxyCalls :
          ProxyCalled(r) ~> (reqs[r].pc = "forwarded" /\ reqs[r].impl = storageKind)

\* a call issued before initialization finished has slept at least once and
\* has then been forwarded to the database storage
C29_Witness ==
    \E r \in ProxyCalls :
        /\ reqs[r].pc = "forwarded"
        /\ reqs[r].calledBeforeInit
        /\ reqs[r].polls > 0
        /\ reqs[r].impl = "db"

\* ------------------------------------------------------------------------
\* DatabaseConnection.connect and ensureDatabase (database.ts).  One slot holds
\* the call made at startup: its position, the configuration, the pool of the
\* connection object and what each attempt did.
\* ------------------------------------------------------------------------
SetupSlot == 1

\* the defaults of the constructor
DefaultDatabaseConfig ==
    [maxRetries |-> 5, baseTimeout |-> 15000, maxTimeout |-> 120000,
     retryDelay |-> 3000]

\* the configuration ensureDatabase passes
ensureDatabaseConfig(env) ==
    [maxRetries |-> IF env = "production" THEN 8 ELSE 3,
     baseTimeout |-> 20000, maxTimeout |-> 180000, retryDelay |-> 5000]

\* configurations of direct callers: the defaults, and overrides under which
\* the ceiling of the timeout is reached
DirectConfigs ==
    {DefaultDatabaseConfig,
     [DefaultDatabaseConfig EXCEPT !.maxRetries = 3, !.maxTimeout = 40000],
     [DefaultDatabaseConfig EXCEPT !.maxRetries = 1]}

\* const timeout = Math.min(baseTimeout * attempt, maxTimeout)
attemptTimeout(config, attempt) ==
    Min(config.baseTimeout * attempt, config.maxTimeout)

\* if (!this.pool) this.pool = new Pool({ connectionTimeoutMillis: timeout })
ensurePool(pool, timeout) ==
    IF pool = None THEN Some(timeout) ELSE pool

\* the prefix of one pass of the loop, up to await this.pool.connect()
StartAttempt(s, attempt) ==
    LET timeout == attemptTimeout(s.config, attempt)
        pool == ensurePool(s.pool, timeout)
    IN [s EXCEPT !.pc = "connecting", !.attempt = attempt, !.timeout = timeout,
                 !.pool = pool,
                 !.tried = @ \cup {[attempt |-> attempt, phase |-> "connect",
                                    timeout |-> Val(pool)]}]

\* connect() is entered
EnterConnect(route, url, config) ==
    LET s == [pc |-> "entered", route |-> route, url |-> url, config |-> config,
              attempt |-> 0, timeout |-> 0, pool |-> None, tried |-> {},
              failed |-> {}, delays |-> {}, connected |-> None,
              schemaReady |-> None, result |-> None]
    IN IF 1 <= config.maxRetries THEN StartAttempt(s, 1)
       ELSE [s EXCEPT !.pc = "returned", !.connected = Some(FALSE),
                      !.result = Some(FALSE)]

\* connect() returns: to ensureDatabase, or to the direct caller
ConnectReturns(s, value) ==
    IF s.route = "connect"
    THEN [s EXCEPT !.pc = "returned", !.connected = Some(value),
                   !.result = Some(value)]
    ELSE IF value
    THEN [s EXCEPT !.pc = "schema", !.connected = Some(TRUE)]
    ELSE [s EXCEPT !.pc = "returned", !.connected = Some(FALSE),
                   !.result = Some(FALSE)]

\* the catch block of an attempt
AttemptFailed(s) ==
    LET t == [s EXCEPT !.failed = @ \cup {s.attempt}] IN
    IF s.attempt = s.config.maxRetries
    THEN ConnectReturns(t, FALSE)
    ELSE [t EXCEPT !.pc = "delaying", !.delays = @ \cup {s.attempt}]

SetupUnchanged ==
    UNCHANGED <<now, nodeEnv, userRequestCounts, ipRequestCounts, storageKind,
                users, waitlistEntries, allowed, made>>

EnsureDatabaseCall(r, url) ==
    /\ reqs[r].pc = "idle"
    /\ reqs' = [reqs EXCEPT ![r] =
                  IF url = None
                  THEN [pc |-> "returned", route |-> "ensureDatabase",
                        url |-> url, connected |-> None, schemaReady |-> None,
                        tried |-> {}, failed |-> {}, delays |-> {},
                        result |-> Some(TRUE)]
                  ELSE EnterConnect("ensureDatabase", url,
                                    ensureDatabaseConfig(nodeEnv))]
    /\ SetupUnchanged

ConnectCall(r, config) ==
    /\ reqs[r].pc = "idle"
    /\ reqs' = [reqs EXCEPT ![r] =
                  EnterConnect("connect", Some("postgres://db"), config)]
    /\ SetupUnchanged

\* await this.pool.connect() settles: a client, or an error (among them the
\* connection timeout of the pool)
PoolConnectSettles(r, ok) ==
    /\ reqs[r].pc = "connecting"
    /\ reqs' = [reqs EXCEPT ![r] =
                  IF ok
                  THEN [@ EXCEPT !.pc = "querying",
                                 !.tried = @ \cup {[attempt |-> reqs[r].attempt,
                                                    phase |-> "query",
                                                    timeout |-> reqs[r].timeout]}]
                  ELSE AttemptFailed(@)]
    /\ SetupUnchanged

\* the race of the test query against its timer settles
QuerySettles(r, ok) ==
    /\ reqs[r].pc = "querying"
    /\ reqs' = [reqs EXCEPT ![r] =
                  IF ok THEN ConnectReturns(@, TRUE) ELSE AttemptFailed(@)]
    /\ SetupUnchanged

\* await this.delay(retryDelay) is over: the next pass of the loop
DelayFires(r) ==
    /\ reqs[r].pc = "delaying"
    /\ reqs' = [reqs EXCEPT ![r] = StartAttempt(@, reqs[r].attempt + 1)]
    /\ SetupUnchanged

\* ensureSchema settles and ensureDatabase returns
EnsureSchemaSettles(r, ok) ==
    /\ reqs[r].pc = "schema"
    /\ reqs' = [reqs EXCEPT ![r] =
                  [@ EXCEPT !.pc = "returned", !.schemaReady = Some(ok),
                            !.result = Some(ok)]]
    /\ SetupUnchanged

SetupNext ==
    \/ \E url \in {None, Some("postgres://db")} : EnsureDatabaseCall(SetupSlot, url)
    \/ \E config \in DirectConfigs : ConnectCall(SetupSlot, config)
    \/ \E ok \in BOOLEAN : PoolConnectSettles(SetupSlot, ok)
    \/ \E ok \in BOOLEAN : QuerySettles(SetupSlot, ok)
    \/ DelayFires(SetupSlot)
    \/ \E ok \in BOOLEAN : EnsureSchemaSettles(SetupSlot, ok)

SpecSetup == Init /\ [][SetupNext]_vars

ConnectEntered(s) == s.pc # "idle" /\ s.url # None
Attempts(s) == {t.attempt : t \in s.tried}

\* the attempts, the result and the delays of connect
ConnectCounts(s) ==
    /\ Attempts(s) = 1..s.attempt
    /\ s.attempt <= s.config.maxRetries
    /\ s.connected = Some(TRUE) => s.failed = 1..(s.attempt - 1)
    /\ s.connected = Some(FALSE) <=> s.failed = 1..s.config.maxRetries
    /\ s.pc # "delaying" =>
          s.delays = {k \in Attempts(s) : k < s.attempt}
    /\ s.delays \subseteq 1..(s.config.maxRetries - 1)

\* every wait of attempt k is bounded by min(baseTimeout * k, maxTimeout)
AttemptTimeouts(s) ==
    \A t \in s.tried : t.timeout = attemptTimeout(s.config, t.attempt)

\* ensureDatabase answers true only without DATABASE_URL or after both steps
EnsureDatabaseResult(s) ==
    (s.pc # "idle" /\ s.route = "ensureDatabase" /\ s.result = Some(TRUE)) =>
        \/ s.url = None
        \/ s.connected = Some(TRUE) /\ s.schemaReady = Some(TRUE)

\* C30: connect makes at most maxRetries attempts, returns true at the first
\* successful one and makes no further attempt, returns false iff all
\* maxRetries attempts failed, waits retryDelay only between two attempts, and
\* attempt k uses timeout min(baseTimeout * k, maxTimeout); ensureDatabase
\* returns true only if connect and ensureSchema both succeeded or no
\* DATABASE_URL is configured.
C30_ConnectRetries ==
    LET s == reqs[SetupSlot] IN
      /\ ConnectEntered(s) =>
            ConnectCounts(s) /\ AttemptTimeouts(s)
      /\ EnsureDatabaseResult(s)

=============================================================================
